---------------------------- MODULE Spec2Model ----------------------------
(***************************************************************************)
(* A model of the context store, the deduplicator and the embedding client *)
(* of the llm-reasoning backend (src/rag/semantic.ts, deduplicator.ts,     *)
(* embeddings.ts).                                                         *)
(*                                                                         *)
(* Text is a sequence of UTF-16 code units.  A cosine similarity is kept   *)
(* exactly as the pair [dot, nsq] that stands for dot / sqrt(nsq), and     *)
(* compared by squaring.  A timestamp counts units of maxContextAge*ln 2,  *)
(* so that exp(-age/maxContextAge) is exactly 2^(-age).  A confidence is   *)
(* kept in tenths.                                                         *)
(***************************************************************************)
EXTENDS Integers, Sequences, FiniteSets, TLC

(***************************************************************************)
(* Text primitives (the String methods the code calls).  A text is the     *)
(* sequence of its UTF-16 code units.                                      *)
(*                                                                         *)
(* CHOOSE r \in {F(s) : s \in {x}} : TRUE is F(x), with x computed once,   *)
(* before F is applied to it.                                              *)
(***************************************************************************)
Min(a, b) == IF a < b THEN a ELSE b

\* \s of a JavaScript regular expression, over the code units used here
IsSpace(c) == c \in {9, 10, 11, 12, 13, 32}

\* \w of a JavaScript regular expression: [A-Za-z0-9_]
IsWord(c) == c \in (48..57) \cup (65..90) \cup {95} \cup (97..122)

toLowerCase(text) ==
    CHOOSE r \in {[i \in 1..Len(s) |-> IF s[i] \in 65..90 THEN s[i] + 32 ELSE s[i]] :
                    s \in {text}} : TRUE

toUpperCase(text) ==
    CHOOSE r \in {[i \in 1..Len(s) |-> IF s[i] \in 97..122 THEN s[i] - 32 ELSE s[i]] :
                    s \in {text}} : TRUE

\* A loop over a text is a function of the number of iterations made, written
\* in blocks of eight iterations (block[b] is the state after 8 * b of them) so
\* that its evaluation does not nest as deep as the text is long.
LastBlock(n) == (n + 7) \div 8

\* every run of white space in s made one space
Collapse(s) ==
    LET block[b \in 0..LastBlock(Len(s))] ==
            IF b = 0 THEN <<>>
            ELSE CHOOSE r \in
                   {LET out[i \in (8 * (b - 1))..Min(8 * b, Len(s))] ==
                            IF i = 8 * (b - 1) THEN start
                            ELSE IF ~IsSpace(s[i]) THEN Append(out[i - 1], s[i])
                            ELSE IF i > 1 /\ IsSpace(s[i - 1]) THEN out[i - 1]
                            ELSE Append(out[i - 1], 32)
                    IN  out[Min(8 * b, Len(s))] : start \in {block[b - 1]}} : TRUE
    IN  block[LastBlock(Len(s))]

\* replace(/\s+/g, " ")
collapseWhitespace(text) == CHOOSE r \in {Collapse(s) : s \in {text}} : TRUE

TrimOf(s) ==
    LET inner == {i \in 1..Len(s) : ~IsSpace(s[i])}
    IN  IF inner = {} THEN <<>>
        ELSE SubSeq(s, CHOOSE i \in inner : \A m \in inner : i <= m,
                       CHOOSE i \in inner : \A m \in inner : m <= i)

trim(text) == CHOOSE r \in {TrimOf(s) : s \in {text}} : TRUE

\* s.substring(0, n)
substring(text, n) == CHOOSE r \in {SubSeq(s, 1, Min(n, Len(s))) : s \in {text}} : TRUE

(***************************************************************************)
(* The 32-bit string hash shared by the three classes:                     *)
(*     hash = (hash << 5) - hash + char;  hash = hash & hash               *)
(* kept as two unsigned 16-bit halves so that no intermediate value leaves *)
(* the range of the checker's integers; Int32 is the signed value that     *)
(* toString() prints, and two hashes print alike only if they are equal.   *)
(***************************************************************************)
HashStep(h, char) ==
    LET lo == h[2] * 31 + char
        hi == h[1] * 31 + (lo \div 65536)
    IN  <<hi % 65536, lo % 65536>>

HashOf(s) ==
    LET block[b \in 0..LastBlock(Len(s))] ==
            IF b = 0 THEN <<0, 0>>
            ELSE CHOOSE r \in
                   {LET hash[i \in (8 * (b - 1))..Min(8 * b, Len(s))] ==
                            IF i = 8 * (b - 1) THEN start
                            ELSE CHOOSE q \in {HashStep(h, s[i]) : h \in {hash[i - 1]}} : TRUE
                    IN  hash[Min(8 * b, Len(s))] : start \in {block[b - 1]}} : TRUE
    IN  block[LastBlock(Len(s))]

Int32(h) == (IF h[1] >= 32768 THEN h[1] - 65536 ELSE h[1]) * 65536 + h[2]

\* the loop of generateCacheKey / generateContentHash / generateSemanticHash
hashString(text) == CHOOSE r \in {Int32(h) : h \in {HashOf(text)}} : TRUE

(***************************************************************************)
(* Bounds of the model.                                                    *)
(***************************************************************************)
\* addContext calls made in one behaviour
MaxCalls == 2

\* addContext calls that may be in flight together
MaxInFlight == 2

\* the clock stops after this many units
MaxTime == 1

\* adds made to chat "A" before the behaviour starts
Prefill == 15

\* clearContext / cleanupExpiredContexts calls made in one behaviour
MaxMaintenance == 1

\* how many contexts getRelevantContext hands to checkDuplication
MaxPool == 2

\* checkDuplication calls in a behaviour
MaxChecks == 2

\* calls made on the EmbeddingsClient directly, and the longest batch
MaxEmbedCalls == 2
MaxBatch == 2

\* manageContextStorage calls made one after the other
MaxStorageCalls == 2
MaxRetrievals == 1

\* the documents a chat of the RAGModule holds at most, and the searches made
MaxDocuments == 3
MaxSearches == 1

(***************************************************************************)
(* The texts the callers and the text-generation service supply.           *)
(***************************************************************************)
ParisA == \* "Paris is the capital of France."
    <<80,97,114,105,115,32,105,115,32,116,104,101,32,99,97,112,105,116,97,108,32,111,102,32,70,114,97,110,99,101,46>>

ParisB == \* "The capital city of France is Paris."
    <<84,104,101,32,99,97,112,105,116,97,108,32,99,105,116,121,32,111,102,32,70,114,97,110,99,101,32,105,115,32,80,97,114,105,115,46>>

Berlin == \* "Berlin is the capital of Germany."
    <<66,101,114,108,105,110,32,105,115,32,116,104,101,32,99,97,112,105,116,97,108,32,111,102,32,71,101,114,109,97,110,121,46>>

KeywordTwin == \* "France has Paris as its capital"
    <<70,114,97,110,99,101,32,104,97,115,32,80,97,114,105,115,32,97,115,32,105,116,115,32,99,97,112,105,116,97,108>>

ParisLoud == \* "PARIS is the capital of France!"
    <<80,65,82,73,83,32,105,115,32,116,104,101,32,99,97,112,105,116,97,108,32,111,102,32,70,114,97,110,99,101,33>>

ParisTypo == \* "Paris is the capitol of France."
    <<80,97,114,105,115,32,105,115,32,116,104,101,32,99,97,112,105,116,111,108,32,111,102,32,70,114,97,110,99,101,46>>

ParisNear == \* "Paris, on the Seine, is the capital of France."
    <<80,97,114,105,115,44,32,111,110,32,116,104,101,32,83,101,105,110,101,44,32,105,115,32,116,104,101,32,99,97,112,105,116,97,108,32,111,102,32,70,114,97,110,99,101,46>>

ParisPara == \* "France is governed from Paris."
    <<70,114,97,110,99,101,32,105,115,32,103,111,118,101,114,110,101,100,32,102,114,111,109,32,80,97,114,105,115,46>>

QueryCapital == \* "capital of france"
    <<99,97,112,105,116,97,108,32,111,102,32,102,114,97,110,99,101>>

ParisCity == \* "Paris is a city in France."
    <<80,97,114,105,115,32,105,115,32,97,32,99,105,116,121,32,105,110,32,70,114,97,110,99,101,46>>

Keywords == \* "capital france paris"
    <<99,97,112,105,116,97,108,32,102,114,97,110,99,101,32,112,97,114,105,115>>

ExtractedText == \* "France borders Germany."
    <<70,114,97,110,99,101,32,98,111,114,100,101,114,115,32,71,101,114,109,97,110,121,46>>

NoneAnswer == \* " none\n"
    <<32,110,111,110,101,10>>

AnsDuplicate == \* "DUPLICATE"
    <<68,85,80,76,73,67,65,84,69>>

AnsUnique == \* "UNIQUE"
    <<85,78,73,81,85,69>>

AnsLower == \* " duplicate\n"
    <<32,100,117,112,108,105,99,97,116,101,10>>

AnsOther == \* "MAYBE"
    <<77,65,89,66,69>>

FillerPrefix == \* "background fact number "
    <<98,97,99,107,103,114,111,117,110,100,32,102,97,99,116,32,110,117,109,98,101,114,32>>

\* "background fact number a", "... b", ...: the texts of a pre-filled chat
Filler(i) == FillerPrefix \o <<96 + i>>

\* "q0000", "q0001", ...: the texts embedded and compared before the behaviour starts
Earlier(i) ==
    <<113, 48 + (((i - 1) \div 1000) % 10), 48 + (((i - 1) \div 100) % 10),
      48 + (((i - 1) \div 10) % 10), 48 + ((i - 1) % 10)>>

Blank == <<32>>

\* what addContext is called with
Contents == {ParisA, ParisB}

ParisBrief == \* "Paris, France."
    <<80,97,114,105,115,44,32,70,114,97,110,99,101,46>>

ParisSymbols == \* "  Paris  @#$%^&*()  "
    <<32,32,80,97,114,105,115,32,32,64,35,36,37,94,38,42,40,41,32,32>>

ParisNine == \* "Paris 123"
    <<80,97,114,105,115,32,49,50,51>>

ParisTen == \* "Paris 1234"
    <<80,97,114,105,115,32,49,50,51,52>>

\* contents of fewer than 20 characters, and of fewer than 10 once cleaned
BriefContents == {ParisBrief, ParisSymbols, ParisNine, ParisTen}

Chats == {"A", "B"}

\* the contents checkDuplication is called with
NewContents == {ParisLoud, ParisTypo, KeywordTwin, ParisB, ParisNear, ParisPara, Berlin}

\* confidences, in tenths
Confidences == {5, 9}

Metadatas == {[source |-> "user"]}

ContextTypes == {"query_result"}

(***************************************************************************)
(* SemanticContextManager: constants and pure helpers.                     *)
(***************************************************************************)
maxContextsPerChat == 15

maxContentLength == 1000

\* 0.85, as a fraction
duplicateThreshold == <<17, 20>>

\* the characters cleanContent keeps: [\w\s.,!?\-:;]
IsKept(c) == IsWord(c) \/ IsSpace(c) \/ c \in {46, 44, 33, 63, 45, 58, 59}

\* a cleaning that keeps every character
cleanContentKeepAll(content) ==
    substring(trim(collapseWhitespace(content)), maxContentLength)

cleanContent(content) ==
    substring(trim(CHOOSE r \in {[i \in 1..Len(s) |-> IF IsKept(s[i]) THEN s[i] ELSE 32] :
                                   s \in {collapseWhitespace(content)}} : TRUE),
              maxContentLength)

generateSemanticHash(content) ==
    hashString(trim(collapseWhitespace(toLowerCase(content))))

(***************************************************************************)
(* EmbeddingsClient.                                                       *)
(***************************************************************************)
maxCacheSize == 1000

normalizeText(text) ==
    substring(trim(CHOOSE r \in {[i \in 1..Len(s) |->
                                     IF IsWord(s[i]) \/ IsSpace(s[i]) THEN s[i] ELSE 32] :
                                   s \in {collapseWhitespace(toLowerCase(text))}} : TRUE),
              8000)

generateCacheKey(text) == hashString(text)

\* The embedding service (OpenAIEmbeddings.embedQuery) is a fixed function of the
\* text it is sent: these vectors for the texts it is sent here, the filler
\* texts pairwise dissimilar.
FillerVectors ==
    << <<-1, 0, 0>>, <<0, 1, 0>>, <<0, -1, 0>>, <<0, 0, 1>>, <<0, 0, -1>>,
       <<-1, 1, 0>>, <<-1, -1, 0>>, <<-1, 0, 1>>, <<-1, 0, -1>>,
       <<0, 1, 1>>, <<0, 1, -1>>, <<0, -1, 1>>, <<0, -1, -1>>,
       <<-1, 1, 1>>, <<-1, -1, -1>>, <<-1, 1, -1>> >>

Vectors ==
    {<<normalizeText(ParisA), <<10, 0, 0>> >>,
     <<normalizeText(ParisB), <<10, 2, 1>> >>,
     <<normalizeText(Berlin), <<1, 1, 1>> >>,
     <<normalizeText(ParisTypo), <<10, 1, 0>> >>,
     <<normalizeText(Keywords), <<0, 1, 0>> >>,
     <<normalizeText(ParisNear), <<10, 5, 0>> >>,
     <<normalizeText(ParisPara), <<10, 7, 0>> >>,
     <<normalizeText(KeywordTwin), <<1, 1, -1>> >>,
     <<normalizeText(QueryCapital), <<3, 4, 0>> >>,
     <<normalizeText(ParisCity), <<4, 3, 0>> >>}
        \cup {<<normalizeText(Filler(i)), FillerVectors[i]>> : i \in 1..Len(FillerVectors)}

embedQuery(text) ==
    IF \E p \in Vectors : p[1] = text
    THEN (CHOOSE p \in Vectors : p[1] = text)[2]
    ELSE <<1, -1, 1>>

RECURSIVE Dot(_, _, _)
Dot(a, b, i) == IF i > Len(a) THEN 0 ELSE a[i] * b[i] + Dot(a, b, i + 1)

\* a similarity dot/sqrt(nsq); 0 when a norm is 0
calculateCosineSimilarity(a, b) ==
    LET normA == Dot(a, a, 1)
        normB == Dot(b, b, 1)
    IN  IF normA = 0 \/ normB = 0
        THEN [dot |-> 0, nsq |-> 1]
        ELSE [dot |-> Dot(a, b, 1), nsq |-> normA * normB]

\* x >= t[1]/t[2] for a similarity x
SimAtLeast(x, t) ==
    x.dot >= 0 /\ t[2] * t[2] * x.dot * x.dot >= t[1] * t[1] * x.nsq

\* x > y for similarities x, y
SimGreater(x, y) ==
    IF x.dot <= 0 THEN y.dot < 0 /\ x.dot * x.dot * y.nsq < y.dot * y.dot * x.nsq
    ELSE y.dot <= 0 \/ x.dot * x.dot * y.nsq > y.dot * y.dot * x.nsq

SimZero == [dot |-> 0, nsq |-> 1]

(***************************************************************************)
(* Deduplicator: constants and pure helpers.                               *)
(***************************************************************************)
\* 0.95, 0.85 and 0.75, as fractions
exactMatchThreshold == <<19, 20>>

semanticSimilarityThreshold == <<17, 20>>

paraphraseThreshold == <<3, 4>>

enableLLMValidation == TRUE

maxLLMValidationLength == 500

\* Deduplicator.maxCacheSize
deduplicatorMaxCacheSize == 2000

normalizeForComparison(text) ==
    trim(collapseWhitespace(
        CHOOSE r \in {[i \in 1..Len(s) |->
                         IF IsWord(s[i]) \/ IsSpace(s[i]) THEN s[i] ELSE 32] :
                       s \in {toLowerCase(text)}} : TRUE))

generateContentHash(content) == hashString(content)

\* s.split(" ")
split(s) ==
    LET block[b \in 0..LastBlock(Len(s))] ==
            IF b = 0 THEN << <<>> >>
            ELSE CHOOSE r \in
                   {LET parts[i \in (8 * (b - 1))..Min(8 * b, Len(s))] ==
                            IF i = 8 * (b - 1) THEN start
                            ELSE CHOOSE q \in
                                   {IF s[i] = 32 THEN Append(p, <<>>)
                                    ELSE [p EXCEPT ![Len(p)] = Append(@, s[i])] :
                                      p \in {parts[i - 1]}} : TRUE
                    IN  parts[Min(8 * b, Len(s))] : start \in {block[b - 1]}} : TRUE
    IN  block[LastBlock(Len(s))]

\* a < b for strings: the order of their UTF-16 code units
StringLess(a, b) ==
    \E i \in 1..(Min(Len(a), Len(b)) + 1) :
        /\ \A k \in 1..(i - 1) : a[k] = b[k]
        /\ IF i > Len(a) THEN i <= Len(b)
           ELSE i <= Len(b) /\ a[i] < b[i]

\* Array.prototype.sort without a comparison function
sort(words) ==
    LET sorted[i \in 0..Len(words)] ==
            IF i = 0 THEN <<>>
            ELSE CHOOSE r \in
                   {LET n == Cardinality({k \in 1..Len(p) : ~StringLess(words[i], p[k])})
                    IN  SubSeq(p, 1, n) \o <<words[i]>> \o SubSeq(p, n + 1, Len(p)) :
                      p \in {sorted[i - 1]}} : TRUE
    IN  sorted[Len(words)]

\* words.join(" ")
join(words) ==
    LET joined[i \in 0..Len(words)] ==
            IF i = 0 THEN <<>>
            ELSE IF i = 1 THEN words[1]
            ELSE joined[i - 1] \o <<32>> \o words[i]
    IN  joined[Len(words)]

\* words.filter((word) => word.length > 3)
longWords(words) ==
    LET kept[i \in 0..Len(words)] ==
            IF i = 0 THEN <<>>
            ELSE IF Len(words[i]) > 3 THEN Append(kept[i - 1], words[i])
            ELSE kept[i - 1]
    IN  kept[Len(words)]

\* Deduplicator.generateSemanticHash
keyWordHash(content) ==
    CHOOSE r \in {generateContentHash(join(SubSeq(sortedWords, 1, Min(10, Len(sortedWords))))) :
                    sortedWords \in {CHOOSE q \in {sort(w) :
                                        w \in {CHOOSE v \in {longWords(x) :
                                                  x \in {split(normalizeForComparison(content))}} :
                                                        TRUE}} : TRUE}} : TRUE

Min3(a, b, c) == Min(a, Min(b, c))

\* lines 400-407: the row of the matrix for the j-th character of str2, from
\* the row before it
NextRow(prev, str1, str2, j) ==
    LET block[b \in 0..LastBlock(Len(str1))] ==
            IF b = 0 THEN <<j>>
            ELSE CHOOSE r \in
                   {LET row[i \in (8 * (b - 1))..Min(8 * b, Len(str1))] ==
                            IF i = 8 * (b - 1) THEN start
                            ELSE CHOOSE q \in
                                   {Append(p, Min3(p[i] + 1,
                                                   prev[i + 1] + 1,
                                                   prev[i] + (IF str1[i] = str2[j]
                                                              THEN 0 ELSE 1))) :
                                      p \in {row[i - 1]}} : TRUE
                    IN  row[Min(8 * b, Len(str1))] : start \in {block[b - 1]}} : TRUE
    IN  block[LastBlock(Len(str1))]

\* lines 386-411; a row is kept as the sequence of its columns 0..str1.length
levenshteinDistance(str1, str2) ==
    LET block[b \in 0..LastBlock(Len(str2))] ==
            IF b = 0 THEN [i \in 1..(Len(str1) + 1) |-> i - 1]
            ELSE CHOOSE r \in
                   {LET matrix[j \in (8 * (b - 1))..Min(8 * b, Len(str2))] ==
                            IF j = 8 * (b - 1) THEN start
                            ELSE CHOOSE q \in {NextRow(prev, str1, str2, j) :
                                                 prev \in {matrix[j - 1]}} : TRUE
                    IN  matrix[Min(8 * b, Len(str2))] : start \in {block[b - 1]}} : TRUE
    IN  block[LastBlock(Len(str2))][Len(str1) + 1]

\* the similarity (longer.length - editDistance) / longer.length, as dot/sqrt(nsq)
calculateCharacterSimilarity(str1, str2) ==
    LET longer == IF Len(str1) > Len(str2) THEN str1 ELSE str2
        shorter == IF Len(str1) > Len(str2) THEN str2 ELSE str1
    IN  IF Len(longer) = 0 THEN [dot |-> 1, nsq |-> 1]
        ELSE [dot |-> Len(longer) - levenshteinDistance(longer, shorter),
              nsq |-> Len(longer) * Len(longer)]

(***************************************************************************)
(* The texts that occur in the behaviours, and the operators above         *)
(* tabulated over them, so that each text is cleaned, normalized and       *)
(* hashed once: Cleaned[t] = cleanContent(t), and so on.                   *)
(***************************************************************************)
\* the function f, its values computed once
Tabulated(f) == f @@ <<>>

Given == Contents \cup NewContents \cup {Keywords} \cup {Filler(i) : i \in 1..Len(FillerVectors)}
             \cup {NoneAnswer, ExtractedText} \cup {Earlier(1), Earlier(2), Blank}
             \cup {QueryCapital, ParisCity} \cup BriefContents

Derived == Given \cup {cleanContent(t) : t \in Given} \cup {trim(t) : t \in Given}

Texts == Derived \cup {cleanContent(t) : t \in Derived}
             \cup {normalizeText(t) : t \in Derived}

Cleaned == Tabulated([t \in Texts |-> cleanContent(t)])

Normalized == Tabulated([t \in Texts |-> normalizeText(t)])

Trimmed == Tabulated([t \in Texts |-> trim(t)])

SemanticHashes == Tabulated([t \in Texts |-> generateSemanticHash(t)])

CacheKeys == Tabulated([t \in Texts |-> generateCacheKey(t)])

(***************************************************************************)
(* State.                                                                  *)
(***************************************************************************)
VARIABLES
    contexts,           \* SemanticContextManager.contexts: chat -> array (<<>>: no entry)
    seenHashes,         \* SemanticContextManager.seenHashes
    contentEmbeddings,  \* SemanticContextManager.contentEmbeddings, as {<<id, embedding>>}
    embeddingCache,     \* EmbeddingsClient.embeddingCache, in insertion order
    now,                \* Date.now()
    nextId,             \* stands for the random part of a context id
    calls,              \* the addContext calls: position, arguments and locals
    toRemove,           \* maintainContextLimits: what its last pass spliced off
    maintenance         \* clearContext / cleanupExpiredContexts calls made so far

storeVars == <<contexts, seenHashes, contentEmbeddings, embeddingCache, now,
               nextId, calls, toRemove, maintenance>>

VARIABLES
    exactMatchCache,    \* Deduplicator.exactMatchCache, in insertion order
    semanticHashCache,  \* Deduplicator.semanticHashCache, in insertion order
    llmValidationCache, \* Deduplicator.llmValidationCache, in insertion order
    check,              \* the checkDuplication call: position, arguments and locals
    checks              \* checkDuplication calls made so far

dedupVars == <<exactMatchCache, semanticHashCache, llmValidationCache, check, checks>>

VARIABLES
    embedCalls          \* the generateEmbedding / generateBatchEmbeddings calls made
                        \* on the EmbeddingsClient directly: position and locals

serviceVars == <<embedCalls>>

VARIABLES
    retrieval,          \* the getRelevantContext call: position, arguments and locals
    rankCall            \* the ContextRank call made on what was retrieved

retrievalVars == <<retrieval, rankCall>>

VARIABLES
    managed,            \* the Map of chats' contexts a caller hands to the
                        \* MemoryManager, in insertion order
    memory,             \* the MemoryManager: config, memoryUsage (in bytes),
                        \* archivedContexts and accessPatterns (in insertion order)
    storage             \* the manageContextStorage call: position, arguments,
                        \* locals, what it did so far, and the calls made so far

memoryVars == <<managed, memory, storage>>

VARIABLES
    rag,                \* the RAGModule: which of its two versions it is (the one
                        \* that reranks with ColBERT or the one that reranks with
                        \* RRF), config, chatContexts, and the documents its vector
                        \* store holds per chat
    search              \* the getRelevantContext call: position, arguments,
                        \* locals, result, and the calls made so far

hybridVars == <<rag, search>>

\* what addContext, the maintenance operations and the deduplicator never touch
otherVars == <<serviceVars, retrievalVars, memoryVars, hybridVars>>

vars == <<storeVars, dedupVars, otherVars>>

CallIds == 1..MaxCalls

IdleCall ==
    [pc |-> "idle", chatId |-> "", content |-> <<>>, contextType |-> "",
     confidence |-> 0, metadata |-> [source |-> ""], cleanedContent |-> <<>>,
     embedding |-> <<>>, semanticHash |-> 0, liveArray |-> TRUE,
     chatContexts |-> <<>>, additionalInfo |-> <<>>, outcome |-> "",
     countBefore |-> 0, knownBefore |-> FALSE, attempts |-> 0,
     generationFailed |-> FALSE]

InFlight(c) == c.pc \notin {"idle", "returned", "failed"}

NumInFlight == Cardinality({i \in CallIds : InFlight(calls[i])})

\* {...a, ...b}
Spread(a, b) ==
    [k \in DOMAIN a \cup DOMAIN b |-> IF k \in DOMAIN b THEN b[k] ELSE a[k]]

\* the context addContext builds (lines 105-124)
NewContext(id, c, time) ==
    [id |-> id,
     content |-> c.additionalInfo,
     embedding |-> c.embedding,
     semanticHash |-> c.semanticHash,
     confidence |-> c.confidence,
     contextType |-> c.contextType,
     metadata |-> Spread(c.metadata,
                         [originalLength |-> Len(c.content),
                          processedLength |-> Len(c.additionalInfo),
                          compressionRatio |->
                              IF Len(c.content) > 0
                              THEN <<Len(c.additionalInfo), Len(c.content)>>
                              ELSE <<0, 1>>]),
     timestamp |-> time]

\* the context a completed addContext(chat, content, "query_result", confidence)
\* left in the store when it stored the cleaned content: the chat was empty, or
\* the extraction call failed (lines 94-133)
AddedContext(id, content, confidence, time) ==
    LET cleaned == Cleaned[content]
    IN  NewContext(id,
                   [IdleCall EXCEPT !.content = content,
                                    !.contextType = "query_result",
                                    !.confidence = confidence,
                                    !.metadata = [source |-> "user"],
                                    !.cleanedContent = cleaned,
                                    !.embedding = embedQuery(Normalized[cleaned]),
                                    !.semanticHash = SemanticHashes[cleaned],
                                    !.additionalInfo = Cleaned[cleaned]],
                   time)

\* the context addContext(chat, Filler(i)) left; the odd ones were added one
\* unit of time before the even ones
FillerContext(i) ==
    AddedContext(i, Filler(i),
                 IF i % 3 = 0 THEN 9 ELSE IF i % 3 = 1 THEN 5 ELSE 8,
                 IF i % 2 = 1 THEN -1 ELSE 0)

CacheEntry(text) ==
    [key |-> CacheKeys[Normalized[text]],
     value |-> embedQuery(Normalized[text])]

\* the store after Prefill fillers were added to chat "A", one after the other
StoreInit ==
    LET n == Min(Prefill, maxContextsPerChat)
    IN  /\ contexts = [ch \in Chats |->
                          IF ch = "A" THEN [i \in 1..n |-> FillerContext(i)] ELSE <<>>]
        /\ seenHashes = {FillerContext(i).semanticHash : i \in 1..n}
        /\ contentEmbeddings = {<<i, FillerContext(i).embedding>> : i \in 1..n}
        /\ embeddingCache = [i \in 1..n |-> CacheEntry(Cleaned[Filler(i)])]
        /\ nextId = n + 1
        /\ now = 0
        /\ calls = [i \in CallIds |-> IdleCall]
        /\ toRemove = [chatId |-> "", removed |-> <<>>]
        /\ maintenance = 0

NoMatch == [isDuplicate |-> FALSE, similarity |-> SimZero, duplicateType |-> "none",
            existingContextId |-> 0, confidence |-> 100]

IdleCheck ==
    [pc |-> "idle", newContent |-> <<>>, existingContexts |-> <<>>, chatId |-> "",
     exactMatch |-> NoMatch, semanticMatch |-> NoMatch, embeddingMatch |-> NoMatch,
     validation |-> "none", response |-> <<>>, result |-> NoMatch]

\* a new Deduplicator (lines 26-28)
DeduplicatorInit ==
    /\ exactMatchCache = <<>>
    /\ semanticHashCache = <<>>
    /\ llmValidationCache = <<>>
    /\ check = IdleCheck
    /\ checks = 0

EmbedCallIds == 1..MaxEmbedCalls

\* a call of the EmbeddingsClient that has not been made yet
IdleEmbedCall ==
    [pc |-> "idle", texts |-> <<>>, uncachedIndices |-> <<>>, results |-> <<>>,
     attempts |-> 0, error |-> ""]

ServiceInit == embedCalls = [i \in EmbedCallIds |-> IdleEmbedCall]

\* a getRelevantContext call that has not been made yet; an optional argument
\* or field is <<>> when it is not given and <<value>> when it is
IdleRetrieval ==
    [pc |-> "idle", chatId |-> "", query |-> <<>>,
     filter |-> [maxAge |-> <<>>, minConfidence |-> <<>>, contextTypes |-> <<>>,
                 metadata |-> <<>>],
     ranking |-> [semanticWeight |-> <<>>, confidenceWeight |-> <<>>,
                  recencyWeight |-> <<>>, typeWeight |-> <<>>],
     topK |-> 0, queryEmbedding |-> <<>>, time |-> 0, result |-> <<>>]

\* a ContextRank call that has not been made yet
IdleRanking ==
    [pc |-> "idle", operation |-> "", contexts |-> <<>>, queryEmbedding |-> <<>>,
     strategy |-> [preset |-> <<>>, custom |-> <<>>], customFilter |-> <<>>,
     topK |-> 0, maxSimilarity |-> <<0, 1>>, time |-> 0,
     filteredContexts |-> <<>>, scoredContexts |-> <<>>, result |-> <<>>]

RetrievalInit == retrieval = IdleRetrieval /\ rankCall = IdleRanking

\* the components no operation of the store or the deduplicator touches
\* part_016 lines 58-72: the defaults of the constructor; maxTotalMemoryMB is
\* in 1024ths of a megabyte and compressionThreshold in tenths
defaultConfig ==
    [maxTotalContexts |-> 10000, maxContextsPerChat |-> 50,
     maxTotalMemoryMB |-> 102400, maxContextAgeDays |-> 7,
     compressionThreshold |-> 3, archivalEnabled |-> TRUE]

\* lines 58-72: the constructor starts the cleanup timer; cleanupInterval is
\* whether the timer is set
NewMemoryManager(config) ==
    [config |-> config, memoryUsage |-> 0, archivedContexts |-> <<>>,
     accessPatterns |-> <<>>, cleanupInterval |-> TRUE]

\* cleanup is <<>> until performCleanup ran in the call, and then what it
\* returned; retrievals and retrieved are the retrieveContexts calls made so
\* far and what the last of them returned
IdleStorage ==
    [pc |-> "idle", chatId |-> "", newContext |-> <<>>, totalContexts |-> 0,
     canStore |-> TRUE, chatContexts |-> <<>>, compressed |-> FALSE,
     archived |-> FALSE, did |-> <<>>, cleanup |-> <<>>, result |-> <<>>,
     calls |-> 0, retrievals |-> 0, retrieved |-> <<>>]

MemoryInit ==
    /\ managed = <<>>
    /\ memory = NewMemoryManager(defaultConfig)
    /\ storage = IdleStorage

\* rag.ts lines 456-484 and 897-925: weights in tenths; rerankTopK is <<>> if
\* the config holds none
defaultRagConfig ==
    [hybrid |-> [vectorWeight |-> 6, bm25Weight |-> 4, rerankTopK |-> <<20>>]]

\* rag.ts lines 24-36 and 506-514
NewRAGModule(version, config) ==
    [version |-> version, config |-> config, chatContexts |-> <<>>,
     vectorStore |-> <<>>, adding |-> <<>>, adds |-> 0]

IdleSearch ==
    [pc |-> "idle", chatId |-> "", query |-> "", topK |-> 0,
     vectorResults |-> <<>>, bm25Results |-> <<>>, hybridResults |-> <<>>,
     documents |-> <<>>, attached |-> TRUE, rerankFailed |-> FALSE,
     result |-> <<>>, calls |-> 0]

HybridInit ==
    /\ rag = NewRAGModule("colbert", defaultRagConfig)
    /\ search = IdleSearch

OtherInit == ServiceInit /\ RetrievalInit /\ MemoryInit /\ HybridInit

Init == StoreInit /\ DeduplicatorInit /\ OtherInit

(***************************************************************************)
(* EmbeddingsClient.generateEmbedding, in two halves: up to its await of   *)
(* the embedding service, and from the service's answer on.                *)
(***************************************************************************)
CacheHas(cache, key) == \E k \in 1..Len(cache) : cache[k].key = key

CacheGet(cache, key) == cache[CHOOSE k \in 1..Len(cache) : cache[k].key = key].value

\* a cache that makes room by dropping its newest entry
CachePutDropNewest(cache, key, value) ==
    LET room == IF Len(cache) >= maxCacheSize THEN SubSeq(cache, 1, Len(cache) - 1)
                ELSE cache
    IN  IF CacheHas(room, key)
        THEN [k \in 1..Len(room) |->
                 IF room[k].key = key THEN [key |-> key, value |-> value] ELSE room[k]]
        ELSE Append(room, [key |-> key, value |-> value])

\* lines 63-70: drop the first key of a full cache, then Map.set
CachePut(cache, key, value) ==
    LET room == IF Len(cache) >= maxCacheSize THEN Tail(cache) ELSE cache
    IN  IF CacheHas(room, key)
        THEN [k \in 1..Len(room) |->
                 IF room[k].key = key THEN [key |-> key, value |-> value] ELSE room[k]]
        ELSE Append(room, [key |-> key, value |-> value])

(***************************************************************************)
(* SemanticContextManager.addContext, one action per stretch of code       *)
(* between two awaits.                                                     *)
(***************************************************************************)
Finish(i, c, how) ==
    calls' = [calls EXCEPT ![i] = [c EXCEPT !.pc = "returned", !.outcome = how]]

Throw(i, c, how) ==
    calls' = [calls EXCEPT ![i] = [c EXCEPT !.pc = "failed", !.outcome = how]]

\* the chat holds a context stored under this hash
Holds(chatId, semanticHash) ==
    \E k \in 1..Len(contexts[chatId]) : contexts[chatId][k].semanticHash = semanticHash

\* lines 61-76: clean, reject short content, start generateEmbedding
AddContextCall(i, chatId, content, contextType, confidence, metadata, limit) ==
    /\ calls[i].pc = "idle"
    /\ \A j \in CallIds : j < i => calls[j].pc # "idle"
    /\ NumInFlight < limit
    /\ LET cleanedContent == Cleaned[content]
           normalizedText == Normalized[cleanedContent]
           cacheKey == CacheKeys[normalizedText]
           c == [calls[i] EXCEPT !.chatId = chatId, !.content = content,
                                 !.contextType = contextType,
                                 !.confidence = confidence,
                                 !.metadata = metadata,
                                 !.cleanedContent = cleanedContent,
                                 !.semanticHash = SemanticHashes[cleanedContent],
                                 !.countBefore = Len(contexts[chatId]),
                                 !.knownBefore = Holds(chatId, SemanticHashes[cleanedContent])]
       IN  IF Len(cleanedContent) < 10
           THEN Finish(i, c, "too_short")
           ELSE IF Len(Trimmed[normalizedText]) = 0
           THEN Throw(i, c, "empty_text")
           ELSE /\ calls' = [calls EXCEPT ![i] =
                                IF CacheHas(embeddingCache, cacheKey)
                                THEN [c EXCEPT !.pc = "isDuplicate",
                                               !.embedding = CacheGet(embeddingCache, cacheKey)]
                                ELSE [c EXCEPT !.pc = "embedQuery"]]
    /\ UNCHANGED <<contexts, seenHashes, contentEmbeddings, embeddingCache, now,
                   nextId, toRemove, maintenance>>
    /\ UNCHANGED <<dedupVars, otherVars>>

\* embeddings.ts lines 53-74: the service answered
EmbeddingArrives(i) ==
    /\ calls[i].pc \in {"embedQuery", "updateEmbedQuery"}
    /\ LET normalizedText == Normalized[calls[i].cleanedContent]
           embedding == embedQuery(normalizedText)
       IN  /\ embeddingCache' = CachePut(embeddingCache,
                                         CacheKeys[normalizedText], embedding)
           /\ calls' = [calls EXCEPT ![i] =
                           [@ EXCEPT !.pc = IF @ = "embedQuery" THEN "isDuplicate"
                                            ELSE "updateLoop",
                                     !.embedding = embedding,
                                     !.attempts = @ + 1]]
    /\ UNCHANGED <<contexts, seenHashes, contentEmbeddings, now, nextId, toRemove,
                   maintenance>>
    /\ UNCHANGED <<dedupVars, otherVars>>

\* the service failed, and an entry without an embedding was cached for the text
EmbeddingFailsCaching(i) ==
    /\ calls[i].pc \in {"embedQuery", "updateEmbedQuery"}
    /\ Throw(i, [calls[i] EXCEPT !.attempts = @ + 1], "embedding_failed")
    /\ embeddingCache' = CachePut(embeddingCache,
                                  CacheKeys[Normalized[calls[i].cleanedContent]], <<>>)
    /\ UNCHANGED <<contexts, seenHashes, contentEmbeddings, now, nextId, toRemove,
                   maintenance>>
    /\ UNCHANGED <<dedupVars, otherVars>>

\* embeddings.ts lines 75-86: the service failed; addContext rejects
EmbeddingFails(i) ==
    /\ calls[i].pc \in {"embedQuery", "updateEmbedQuery"}
    /\ Throw(i, [calls[i] EXCEPT !.attempts = @ + 1], "embedding_failed")
    /\ UNCHANGED <<contexts, seenHashes, contentEmbeddings, embeddingCache, now,
                   nextId, toRemove, maintenance>>
    /\ UNCHANGED <<dedupVars, otherVars>>

\* isDuplicate, never finding one
isDuplicateNever(chatId, semanticHash, embedding) == FALSE

\* lines 218-247
isDuplicate(chatId, semanticHash, embedding) ==
    \/ semanticHash \in seenHashes
    \/ \E k \in 1..Len(contexts[chatId]) :
          SimAtLeast(calculateCosineSimilarity(embedding, contexts[chatId][k].embedding),
                     duplicateThreshold)

\* line 81
IsDuplicateReturns(i) ==
    /\ calls[i].pc = "isDuplicate"
    /\ calls' = [calls EXCEPT ![i].pc =
                    IF isDuplicate(calls[i].chatId, calls[i].semanticHash,
                                   calls[i].embedding)
                    THEN "updateExistingContext" ELSE "extractAdditionalInfo"]
    /\ UNCHANGED <<contexts, seenHashes, contentEmbeddings, embeddingCache, now,
                   nextId, toRemove, maintenance>>
    /\ UNCHANGED <<dedupVars, otherVars>>

\* lines 255-258: take the chat's array, start generateEmbedding
UpdateExistingContextCall(i) ==
    /\ calls[i].pc = "updateExistingContext"
    /\ LET cacheKey == CacheKeys[Normalized[calls[i].cleanedContent]]
           c == [calls[i] EXCEPT !.liveArray = contexts[calls[i].chatId] # <<>>,
                                 !.attempts = 0]
       IN  calls' = [calls EXCEPT ![i] =
                        IF CacheHas(embeddingCache, cacheKey)
                        THEN [c EXCEPT !.pc = "updateLoop",
                                       !.embedding = CacheGet(embeddingCache, cacheKey)]
                        ELSE [c EXCEPT !.pc = "updateEmbedQuery"]]
    /\ UNCHANGED <<contexts, seenHashes, contentEmbeddings, embeddingCache, now,
                   nextId, toRemove, maintenance>>
    /\ UNCHANGED <<dedupVars, otherVars>>

RECURSIVE MostSimilarFrom(_, _, _, _)
\* the loop of lines 260-273: the first context of the greatest similarity > 0
MostSimilarFrom(arr, embedding, k, best) ==
    IF k > Len(arr) THEN best
    ELSE LET similarity == calculateCosineSimilarity(embedding, arr[k].embedding)
         IN  CHOOSE r \in {MostSimilarFrom(arr, embedding, k + 1, b) :
                             b \in {IF SimGreater(similarity, best.highestSimilarity)
                                    THEN [mostSimilar |-> k,
                                          highestSimilarity |-> similarity]
                                    ELSE best}} : TRUE

MostSimilar(arr, embedding) ==
    MostSimilarFrom(arr, embedding, 1, [mostSimilar |-> 0, highestSimilarity |-> SimZero])

\* where the object with this id sits in the chat's current array, 0 if it left the store
LiveIndex(chatId, id) ==
    IF \E k \in 1..Len(contexts[chatId]) : contexts[chatId][k].id = id
    THEN CHOOSE k \in 1..Len(contexts[chatId]) : contexts[chatId][k].id = id
    ELSE 0

\* line 276 with # for >
differentConfidence(confidence, mostSimilar) == confidence # mostSimilar

\* line 276 with >= for >
notLowerConfidence(confidence, mostSimilar) == confidence >= mostSimilar

\* line 276
higherConfidence(confidence, mostSimilar) == confidence > mostSimilar

\* lines 277-279
updatedContext(mostSimilar, confidence, metadata, time) ==
    [mostSimilar EXCEPT !.confidence = confidence,
                        !.metadata = Spread(@, metadata),
                        !.timestamp = time]

\* lines 260-285, on the array taken at line 255
UpdateExistingContextLoop(i) ==
    /\ calls[i].pc = "updateLoop"
    /\ LET c == calls[i]
           chatContexts == IF c.liveArray THEN contexts[c.chatId] ELSE c.chatContexts
           found == MostSimilar(chatContexts, c.embedding)
           matched == found.mostSimilar # 0
                      /\ SimAtLeast(found.highestSimilarity, duplicateThreshold)
           k == IF matched THEN LiveIndex(c.chatId, chatContexts[found.mostSimilar].id)
                ELSE 0
           stored == IF k # 0 THEN contexts[c.chatId][k].confidence
                     ELSE IF matched THEN chatContexts[found.mostSimilar].confidence
                     ELSE 0
       IN  IF matched /\ higherConfidence(c.confidence, stored)
           THEN /\ contexts' =
                       IF k = 0 THEN contexts
                       ELSE [contexts EXCEPT ![c.chatId][k] =
                                updatedContext(@, c.confidence, c.metadata, now)]
                /\ Finish(i, c, "updated")
           ELSE /\ UNCHANGED contexts
                /\ Finish(i, c, "duplicate_noop")
    /\ UNCHANGED <<seenHashes, contentEmbeddings, embeddingCache, now, nextId,
                   toRemove, maintenance>>
    /\ UNCHANGED <<dedupVars, otherVars>>

\* lines 292-299: no existing content, no call of the text-generation service
ExtractAdditionalInfoCall(i) ==
    /\ calls[i].pc = "extractAdditionalInfo"
    /\ LET chatContexts == contexts[calls[i].chatId]
           blank == \A k \in 1..Len(chatContexts) : Trimmed[chatContexts[k].content] = <<>>
       IN  calls' = [calls EXCEPT ![i] =
                        IF blank
                        THEN [@ EXCEPT !.pc = "store",
                                       !.additionalInfo = Cleaned[calls[i].cleanedContent]]
                        ELSE [@ EXCEPT !.pc = "queryLLM"]]
    /\ UNCHANGED <<contexts, seenHashes, contentEmbeddings, embeddingCache, now,
                   nextId, toRemove, maintenance>>
    /\ UNCHANGED <<dedupVars, otherVars>>

\* what the text-generation service may answer to the extraction prompt
Responses == {NoneAnswer, ExtractedText}

\* lines 324-329
TextGenerationAnswers(i, response) ==
    /\ calls[i].pc = "queryLLM"
    /\ LET result == Trimmed[response]
       IN  calls' = [calls EXCEPT ![i] =
                        [@ EXCEPT !.pc = "store",
                                  !.additionalInfo =
                                      IF toUpperCase(result) = <<78, 79, 78, 69>>
                                         \/ Len(result) < 10
                                      THEN <<>> ELSE Cleaned[result]]]
    /\ UNCHANGED <<contexts, seenHashes, contentEmbeddings, embeddingCache, now,
                   nextId, toRemove, maintenance>>
    /\ UNCHANGED <<dedupVars, otherVars>>

\* a catch that returns "" as for an answer of NONE
TextGenerationFailsEmpty(i) ==
    /\ calls[i].pc = "queryLLM"
    /\ calls' = [calls EXCEPT ![i] =
                    [@ EXCEPT !.pc = "store", !.generationFailed = TRUE,
                              !.additionalInfo = <<>>]]
    /\ UNCHANGED <<contexts, seenHashes, contentEmbeddings, embeddingCache, now,
                   nextId, toRemove, maintenance>>
    /\ UNCHANGED <<dedupVars, otherVars>>

\* lines 330-333
TextGenerationFails(i) ==
    /\ calls[i].pc = "queryLLM"
    /\ calls' = [calls EXCEPT ![i] =
                    [@ EXCEPT !.pc = "store", !.generationFailed = TRUE,
                              !.additionalInfo = Cleaned[calls[i].cleanedContent]]]
    /\ UNCHANGED <<contexts, seenHashes, contentEmbeddings, embeddingCache, now,
                   nextId, toRemove, maintenance>>
    /\ UNCHANGED <<dedupVars, otherVars>>

\* confidence * exp(-(now - timestamp) / maxContextAge), times 2^(MaxTime + 1);
\* the time is counted in units of maxContextAge * ln 2
evictionScore(context, time) ==
    context.confidence * 2 ^ (MaxTime + 1 - (time - context.timestamp))

\* InsertByScore, ascending
InsertByScoreAscending(sorted, x, time) ==
    LET before == {k \in 1..Len(sorted) :
                      evictionScore(sorted[k], time) <= evictionScore(x, time)}
        n == Cardinality(before)
    IN  SubSeq(sorted, 1, n) \o <<x>> \o SubSeq(sorted, n + 1, Len(sorted))

\* x put behind every element that does not score lower
InsertByScore(sorted, x, time) ==
    LET before == {k \in 1..Len(sorted) :
                      evictionScore(sorted[k], time) >= evictionScore(x, time)}
        n == Cardinality(before)
    IN  SubSeq(sorted, 1, n) \o <<x>> \o SubSeq(sorted, n + 1, Len(sorted))

RECURSIVE SortByScore(_, _)
\* Array.prototype.sort with (a, b) => scoreB - scoreA: descending and stable
SortByScore(arr, time) ==
    IF arr = <<>> THEN <<>>
    ELSE CHOOSE r \in {InsertByScore(front, arr[Len(arr)], time) :
                          front \in {SortByScore(SubSeq(arr, 1, Len(arr) - 1), time)}} :
             TRUE

\* maintainContextLimits, letting one context more stay
maintainContextLimitsLate(chatContexts, time) ==
    IF Len(chatContexts) <= maxContextsPerChat + 1
    THEN [kept |-> chatContexts, removed |-> <<>>]
    ELSE LET sorted == SortByScore(chatContexts, time)
         IN  [kept |-> SubSeq(sorted, 1, maxContextsPerChat),
              removed |-> SubSeq(sorted, maxContextsPerChat + 1, Len(sorted))]

\* lines 420-448: the array afterwards, and what was spliced off
maintainContextLimits(chatContexts, time) ==
    IF Len(chatContexts) <= maxContextsPerChat
    THEN [kept |-> chatContexts, removed |-> <<>>]
    ELSE LET sorted == SortByScore(chatContexts, time)
         IN  [kept |-> SubSeq(sorted, 1, maxContextsPerChat),
              removed |-> SubSeq(sorted, maxContextsPerChat + 1, Len(sorted))]

Range(f) == {f[k] : k \in DOMAIN f}

\* lines 98-139
StoreContext(i) ==
    /\ calls[i].pc = "store"
    /\ LET c == calls[i]
       IN  IF c.additionalInfo = <<>> \/ Len(Trimmed[c.additionalInfo]) < 20
           THEN /\ Finish(i, c, "nothing_new")
                /\ UNCHANGED <<contexts, seenHashes, contentEmbeddings, nextId, toRemove>>
           ELSE LET context == NewContext(nextId, c, now)
                    limited == maintainContextLimits(
                                   Append(contexts[c.chatId], context), now)
                    gone == Range(limited.removed)
                IN  /\ contexts' = [contexts EXCEPT ![c.chatId] = limited.kept]
                    /\ seenHashes' = (seenHashes \cup {c.semanticHash})
                                         \ {x.semanticHash : x \in gone}
                    /\ contentEmbeddings' =
                           {e \in contentEmbeddings \cup {<<context.id, c.embedding>>} :
                               e[1] \notin {x.id : x \in gone}}
                    /\ nextId' = nextId + 1
                    /\ toRemove' = IF limited.removed = <<>> THEN toRemove
                                   ELSE [chatId |-> c.chatId, removed |-> limited.removed]
                    /\ Finish(i, c, "stored")
    /\ UNCHANGED <<embeddingCache, now, maintenance>>
    /\ UNCHANGED <<dedupVars, otherVars>>

(***************************************************************************)
(* clearContext, cleanupExpiredContexts and the clock.                     *)
(***************************************************************************)
\* An updateExistingContext that holds an array the map no longer holds keeps
\* that array as it was when the map let go of it.
Retire(replaced) ==
    [i \in CallIds |->
        IF /\ calls[i].pc \in {"updateEmbedQuery", "updateLoop"}
           /\ calls[i].liveArray
           /\ calls[i].chatId \in replaced
        THEN [calls[i] EXCEPT !.liveArray = FALSE,
                              !.chatContexts = contexts[calls[i].chatId]]
        ELSE calls[i]]

\* a clear that leaves the hash index as it is
ClearContextKeepingHashes(chatId) ==
    /\ maintenance < MaxMaintenance
    /\ maintenance' = maintenance + 1
    /\ contentEmbeddings' = {e \in contentEmbeddings :
                                e[1] \notin {x.id : x \in Range(contexts[chatId])}}
    /\ contexts' = [contexts EXCEPT ![chatId] = <<>>]
    /\ calls' = Retire({chatId})
    /\ UNCHANGED <<seenHashes, embeddingCache, now, nextId, toRemove>>
    /\ UNCHANGED <<dedupVars, otherVars>>

\* lines 471-481
ClearContext(chatId) ==
    /\ maintenance < MaxMaintenance
    /\ maintenance' = maintenance + 1
    /\ seenHashes' = seenHashes \ {x.semanticHash : x \in Range(contexts[chatId])}
    /\ contentEmbeddings' = {e \in contentEmbeddings :
                                e[1] \notin {x.id : x \in Range(contexts[chatId])}}
    /\ contexts' = [contexts EXCEPT ![chatId] = <<>>]
    /\ calls' = Retire({chatId})
    /\ UNCHANGED <<embeddingCache, now, nextId, toRemove>>
    /\ UNCHANGED <<dedupVars, otherVars>>

\* a test that lets a context of age maxContextAge * 2 ln 2 pass
IsValidLonger(context, time) == (time - context.timestamp) * 693 < 2000

\* line 546: age < maxContextAge, the age counted in units of maxContextAge * ln 2
IsValid(context, time) == (time - context.timestamp) * 693 < 1000

\* lines 539-569
CleanupExpiredContexts ==
    /\ maintenance < MaxMaintenance
    /\ maintenance' = maintenance + 1
    /\ LET validContexts == [ch \in Chats |->
                                SelectSeq(contexts[ch], LAMBDA x : IsValid(x, now))]
           expired == UNION {{x \in Range(contexts[ch]) : ~IsValid(x, now)} : ch \in Chats}
       IN  /\ contexts' = validContexts
           /\ seenHashes' = seenHashes \ {x.semanticHash : x \in expired}
           /\ contentEmbeddings' = {e \in contentEmbeddings :
                                       e[1] \notin {x.id : x \in expired}}
           /\ calls' = Retire({ch \in Chats : validContexts[ch] # contexts[ch]})
    /\ UNCHANGED <<embeddingCache, now, nextId, toRemove>>
    /\ UNCHANGED <<dedupVars, otherVars>>

Tick ==
    /\ now < MaxTime
    /\ now' = now + 1
    /\ UNCHANGED <<contexts, seenHashes, contentEmbeddings, embeddingCache, nextId,
                   calls, toRemove, maintenance>>
    /\ UNCHANGED <<dedupVars, otherVars>>

AddContextStep(limit) ==
    \/ \E i \in CallIds, chatId \in Chats, content \in Contents,
          contextType \in ContextTypes, confidence \in Confidences,
          metadata \in Metadatas :
          AddContextCall(i, chatId, content, contextType, confidence, metadata, limit)
    \/ \E i \in CallIds : EmbeddingArrives(i)
    \/ \E i \in CallIds : EmbeddingFails(i)
    \/ \E i \in CallIds : IsDuplicateReturns(i)
    \/ \E i \in CallIds : UpdateExistingContextCall(i)
    \/ \E i \in CallIds : UpdateExistingContextLoop(i)
    \/ \E i \in CallIds : ExtractAdditionalInfoCall(i)
    \/ \E i \in CallIds, response \in Responses : TextGenerationAnswers(i, response)
    \/ \E i \in CallIds : TextGenerationFails(i)
    \/ \E i \in CallIds : StoreContext(i)

StoreMaintenance ==
    \/ \E chatId \in Chats : ClearContext(chatId)
    \/ CleanupExpiredContexts
    \/ Tick

\* addContext calls overlap at their awaits
Next == AddContextStep(MaxInFlight) \/ StoreMaintenance

Spec == Init /\ [][Next]_vars

\* every addContext call returns before the next one is made
SeqNext == AddContextStep(1) \/ StoreMaintenance

SeqSpec == Init /\ [][SeqNext]_vars

\* lines 54-74: addContext is called with a brief content
AddBriefContent ==
    \E i \in CallIds, chatId \in Chats, content \in BriefContents :
        AddContextCall(i, chatId, content, "query_result", 9, [source |-> "user"], 1)

\* one addContext call after the other, with contents of every length
BriefNext == SeqNext \/ AddBriefContent

BriefSpec == Init /\ [][BriefNext]_vars

(***************************************************************************)
(* Deduplicator.  The store it is asked about holds the contexts that      *)
(* three addContext calls left: two in chat "A" and one in chat "B".       *)
(***************************************************************************)
StoredTexts == <<Berlin, ParisA, Keywords>>

DedupStoreInit ==
    LET stored == [k \in 1..Len(StoredTexts) |-> AddedContext(k, StoredTexts[k], 8, 0)]
    IN  /\ contexts = [ch \in Chats |-> IF ch = "A" THEN SubSeq(stored, 1, 2)
                                        ELSE SubSeq(stored, 3, 3)]
        /\ seenHashes = {stored[k].semanticHash : k \in 1..Len(stored)}
        /\ contentEmbeddings = {<<stored[k].id, stored[k].embedding>> : k \in 1..Len(stored)}
        /\ embeddingCache = [k \in 1..Len(StoredTexts) |-> CacheEntry(Cleaned[StoredTexts[k]])]
        /\ nextId = Len(stored) + 1
        /\ now = 0
        /\ calls = [i \in CallIds |-> IdleCall]
        /\ toRemove = [chatId |-> "", removed |-> <<>>]
        /\ maintenance = 0

DedupInit == DedupStoreInit /\ DeduplicatorInit /\ OtherInit

\* what getRelevantContext (query.ts lines 163-170) can hand to checkDuplication:
\* some of the chat's contexts, in the order of their relevance to the query
RelevantContexts(chatId) ==
    LET chatContexts == contexts[chatId]
        picks == UNION {[1..n -> 1..Len(chatContexts)] : n \in 0..MaxPool}
    IN  {[k \in DOMAIN pick |-> chatContexts[pick[k]]] :
           pick \in {q \in picks : \A a, b \in DOMAIN q : a # b => q[a] # q[b]}}

StoredContents == {AddedContext(k, StoredTexts[k], 8, 0).content : k \in 1..Len(StoredTexts)}

ComparisonTexts == NewContents \cup StoredContents

NormalizedForComparison == Tabulated([t \in ComparisonTexts |-> normalizeForComparison(t)])

ContentHashes ==
    Tabulated([t \in ComparisonTexts |-> generateContentHash(NormalizedForComparison[t])])

KeyWordHashes == Tabulated([t \in ComparisonTexts |-> keyWordHash(t)])

CharacterSimilarities ==
    Tabulated([p \in NewContents \X StoredContents |->
                  calculateCharacterSimilarity(NormalizedForComparison[p[1]],
                                               NormalizedForComparison[p[2]])])

\* validateWithLLM's cache key: the hash of newContent + "|" + existingContent
ValidationKeys ==
    Tabulated([p \in NewContents \X StoredContents |->
                  generateContentHash(p[1] \o <<124>> \o p[2])])

\* a full cache that loses its oldest entry only
manageCacheSizeDropOne(cache) ==
    IF Len(cache) >= deduplicatorMaxCacheSize THEN Tail(cache) ELSE cache

\* lines 413-421: a full cache loses its oldest fifth
manageCacheSize(cache) ==
    IF Len(cache) >= deduplicatorMaxCacheSize
    THEN SubSeq(cache, (deduplicatorMaxCacheSize \div 5) + 1, Len(cache))
    ELSE cache

\* Map.prototype.set
MapSet(cache, key, value) ==
    IF CacheHas(cache, key)
    THEN [k \in 1..Len(cache) |->
             IF cache[k].key = key THEN [key |-> key, value |-> value] ELSE cache[k]]
    ELSE Append(cache, [key |-> key, value |-> value])

Match(type, similarity, id, confidence) ==
    [isDuplicate |-> TRUE, similarity |-> similarity, duplicateType |-> type,
     existingContextId |-> id, confidence |-> confidence]

SimOne == [dot |-> 1, nsq |-> 1]

\* 0.9
SimHash == [dot |-> 9, nsq |-> 100]

\* lines 155-198: the first existing context with the same content hash or
\* with a character similarity of at least exactMatchThreshold
firstExactMatch(newHash, existingHashes, charSimilarities, existingContexts, cache) ==
    LET hits == {k \in 1..Len(existingContexts) :
                    \/ newHash = existingHashes[k]
                    \/ SimAtLeast(charSimilarities[k], exactMatchThreshold)}
    IN  IF CacheHas(cache, newHash)
        THEN [result |-> Match("exact", SimOne, CacheGet(cache, newHash), 100),
              cache |-> cache]
        ELSE IF hits = {} THEN [result |-> NoMatch, cache |-> cache]
        ELSE LET k == CHOOSE h \in hits : \A g \in hits : h <= g
                 context == existingContexts[k]
             IN  IF newHash = existingHashes[k]
                 THEN [result |-> Match("exact", SimOne, context.id, 100),
                       cache |-> MapSet(manageCacheSize(cache), newHash, context.id)]
                 ELSE [result |-> Match("exact", charSimilarities[k], context.id, 95),
                       cache |-> cache]

\* lines 148-206; the result and the cache it leaves
checkExactMatch(newContent, existingContexts, cache) ==
    firstExactMatch(
        ContentHashes[newContent],
        [k \in 1..Len(existingContexts) |-> ContentHashes[existingContexts[k].content]],
        [k \in 1..Len(existingContexts) |->
            CharacterSimilarities[<<newContent, existingContexts[k].content>>]],
        existingContexts, cache)

\* lines 208-246; the result and the cache it leaves
checkSemanticHash(newContent, existingContexts, cache) ==
    LET semanticHash == KeyWordHashes[newContent]
        hits == {k \in 1..Len(existingContexts) :
                    existingContexts[k].semanticHash = semanticHash}
    IN  IF CacheHas(cache, semanticHash)
        THEN [result |-> Match("semantic", SimHash, CacheGet(cache, semanticHash), 90),
              cache |-> cache]
        ELSE IF hits = {} THEN [result |-> NoMatch, cache |-> cache]
        ELSE LET context == existingContexts[CHOOSE h \in hits : \A g \in hits : h <= g]
             IN  [result |-> Match("semantic", SimHash, context.id, 90),
                  cache |-> MapSet(manageCacheSize(cache), semanticHash, context.id)]

\* lines 256-269: the highest similarity above 0 and the first context that has it
MostSimilarContext(newEmbedding, existingContexts) ==
    LET best[k \in 0..Len(existingContexts)] ==
            IF k = 0 THEN [highestSimilarity |-> SimZero, index |-> 0]
            ELSE CHOOSE r \in
                   {IF SimGreater(similarity, prev.highestSimilarity)
                    THEN [highestSimilarity |-> similarity, index |-> k]
                    ELSE prev :
                      prev \in {best[k - 1]},
                      similarity \in {calculateCosineSimilarity(
                                          newEmbedding, existingContexts[k].embedding)}} : TRUE
    IN  best[Len(existingContexts)]

\* lines 256-296, from the embedding of the new content on
checkEmbeddingSimilarity(newEmbedding, existingContexts) ==
    CHOOSE r \in
      {LET highestSimilarity == most.highestSimilarity
       IN  IF SimAtLeast(highestSimilarity, semanticSimilarityThreshold)
           THEN Match("semantic", highestSimilarity, existingContexts[most.index].id, 85)
           ELSE IF SimAtLeast(highestSimilarity, paraphraseThreshold)
           THEN Match("paraphrase", highestSimilarity, existingContexts[most.index].id, 75)
           ELSE [NoMatch EXCEPT !.similarity = highestSimilarity] :
         most \in {MostSimilarContext(newEmbedding, existingContexts)}} : TRUE

\* lines 129-134
Rejected(embeddingMatch) ==
    [isDuplicate |-> FALSE, similarity |-> embeddingMatch.similarity,
     duplicateType |-> "none", existingContextId |-> 0, confidence |-> 80]

\* lines 119-121: existingContexts.find((ctx) => ctx.id === existingContextId).content
FoundContent(existingContexts, id) ==
    existingContexts[CHOOSE k \in 1..Len(existingContexts) :
                        /\ existingContexts[k].id = id
                        /\ \A j \in 1..(k - 1) : existingContexts[j].id # id].content

ValidationKey(c) ==
    ValidationKeys[<<c.newContent,
                     FoundContent(c.existingContexts, c.embeddingMatch.existingContextId)>>]

\* lines 111-115; semanticSimilarityThreshold + 0.1 is 0.95
NeedsValidation(newContent, embeddingMatch) ==
    /\ enableLLMValidation
    /\ ~SimAtLeast(embeddingMatch.similarity,
                   <<10 * semanticSimilarityThreshold[1] + semanticSimilarityThreshold[2],
                     10 * semanticSimilarityThreshold[2]>>)
    /\ Len(newContent) <= maxLLMValidationLength

Return(c, result) == [c EXCEPT !.pc = "returned", !.result = result]

\* lines 96-145 and 304-310: checkDuplication from the embedding of the new
\* content up to validateWithLLM's await of the collaborator
AfterEmbedding(c, newEmbedding) ==
    CHOOSE r \in
      {IF ~d.embeddingMatch.isDuplicate THEN Return(d, NoMatch)
       ELSE IF NeedsValidation(d.newContent, d.embeddingMatch)
       THEN IF CacheHas(llmValidationCache, ValidationKey(d))
            THEN Return([d EXCEPT !.validation = "cached"],
                        IF CacheGet(llmValidationCache, ValidationKey(d))
                        THEN d.embeddingMatch ELSE Rejected(d.embeddingMatch))
            ELSE [d EXCEPT !.pc = "queryLLM"]
       ELSE Return(d, NoMatch) :
         d \in {[c EXCEPT !.embeddingMatch =
                    checkEmbeddingSimilarity(newEmbedding, c.existingContexts)]}} : TRUE

\* a checkDuplication that runs the semantic-hash tier whatever the exact tier
\* found
CheckDuplicationCallEachTier(newContent, existingContexts, chatId) ==
    /\ check.pc \in {"idle", "returned", "failed"}
    /\ checks < MaxChecks
    /\ checks' = checks + 1
    /\ \E c \in {[IdleCheck EXCEPT !.newContent = newContent,
                                   !.existingContexts = existingContexts,
                                   !.chatId = chatId]},
          none \in {Len(existingContexts) = 0} :
       \E exact \in {IF none THEN [result |-> NoMatch, cache |-> exactMatchCache]
                     ELSE checkExactMatch(newContent, existingContexts,
                                          exactMatchCache)} :
       \E semantic \in {IF none
                        THEN [result |-> NoMatch, cache |-> semanticHashCache]
                        ELSE checkSemanticHash(newContent, existingContexts,
                                               semanticHashCache)} :
       \E d \in {[c EXCEPT !.exactMatch = exact.result,
                           !.semanticMatch = semantic.result]},
          normalizedText \in {Normalized[newContent]} :
           /\ exactMatchCache' = exact.cache
           /\ semanticHashCache' = semantic.cache
           /\ check' = IF none THEN Return(c, NoMatch)
                       ELSE IF exact.result.isDuplicate THEN Return(d, exact.result)
                       ELSE IF semantic.result.isDuplicate THEN Return(d, semantic.result)
                       ELSE IF Len(Trimmed[normalizedText]) = 0
                       THEN [d EXCEPT !.pc = "failed"]
                       ELSE IF CacheHas(embeddingCache, CacheKeys[normalizedText])
                       THEN AfterEmbedding(d, CacheGet(embeddingCache,
                                                       CacheKeys[normalizedText]))
                       ELSE [d EXCEPT !.pc = "embedQuery"]
    /\ UNCHANGED <<llmValidationCache, storeVars, otherVars>>

\* lines 61-92 and embeddings.ts lines 33-43: the exact and semantic-hash tiers,
\* then generateEmbedding up to its await of the embedding service
CheckDuplicationCall(newContent, existingContexts, chatId) ==
    /\ check.pc \in {"idle", "returned", "failed"}
    /\ checks < MaxChecks
    /\ checks' = checks + 1
    /\ \E c \in {[IdleCheck EXCEPT !.newContent = newContent,
                                   !.existingContexts = existingContexts,
                                   !.chatId = chatId]},
          none \in {Len(existingContexts) = 0} :
       \E exact \in {IF none THEN [result |-> NoMatch, cache |-> exactMatchCache]
                     ELSE checkExactMatch(newContent, existingContexts,
                                          exactMatchCache)} :
       \E semantic \in {IF none \/ exact.result.isDuplicate
                        THEN [result |-> NoMatch, cache |-> semanticHashCache]
                        ELSE checkSemanticHash(newContent, existingContexts,
                                               semanticHashCache)} :
       \E d \in {[c EXCEPT !.exactMatch = exact.result,
                           !.semanticMatch = semantic.result]},
          normalizedText \in {Normalized[newContent]} :
           /\ exactMatchCache' = exact.cache
           /\ semanticHashCache' = semantic.cache
           /\ check' = IF none THEN Return(c, NoMatch)
                       ELSE IF exact.result.isDuplicate THEN Return(d, exact.result)
                       ELSE IF semantic.result.isDuplicate THEN Return(d, semantic.result)
                       ELSE IF Len(Trimmed[normalizedText]) = 0
                       THEN [d EXCEPT !.pc = "failed"]
                       ELSE IF CacheHas(embeddingCache, CacheKeys[normalizedText])
                       THEN AfterEmbedding(d, CacheGet(embeddingCache,
                                                       CacheKeys[normalizedText]))
                       ELSE [d EXCEPT !.pc = "embedQuery"]
    /\ UNCHANGED <<llmValidationCache, storeVars, otherVars>>

\* embeddings.ts lines 53-74, then checkDuplication on: the service answered
CheckEmbeddingArrives ==
    /\ check.pc = "embedQuery"
    /\ \E normalizedText \in {Normalized[check.newContent]} :
       \E embedding \in {embedQuery(normalizedText)} :
           /\ embeddingCache' = CachePut(embeddingCache, CacheKeys[normalizedText],
                                         embedding)
           /\ check' = AfterEmbedding(check, embedding)
    /\ UNCHANGED <<exactMatchCache, semanticHashCache, llmValidationCache, checks,
                   contexts, seenHashes, contentEmbeddings, now, nextId, calls,
                   toRemove, maintenance, otherVars>>

\* embeddings.ts lines 75-86: the service failed; checkDuplication rejects
CheckEmbeddingFails ==
    /\ check.pc = "embedQuery"
    /\ check' = [check EXCEPT !.pc = "failed"]
    /\ UNCHANGED <<exactMatchCache, semanticHashCache, llmValidationCache, checks,
                   storeVars, otherVars>>

ValidationResponses == {AnsDuplicate, AnsUnique, AnsLower, AnsOther}

\* the answer has to be DUPLICATE as it stands
isLiterallyDuplicate(content) == content = AnsDuplicate

\* lines 333-334
isDuplicateAnswer(content) == toUpperCase(trim(content)) = AnsDuplicate

\* lines 326-339 and 125-137: the collaborator answered
ValidationAnswers(response) ==
    /\ check.pc = "queryLLM"
    /\ \E result \in {isDuplicateAnswer(response)} :
           /\ llmValidationCache' = MapSet(manageCacheSize(llmValidationCache),
                                           ValidationKey(check), result)
           /\ check' = Return([check EXCEPT !.validation = "answered",
                                            !.response = response],
                              IF result THEN check.embeddingMatch
                              ELSE Rejected(check.embeddingMatch))
    /\ UNCHANGED <<exactMatchCache, semanticHashCache, checks, storeVars, otherVars>>

\* lines 340-343 and 125-134: the call of the collaborator failed
ValidationFails ==
    /\ check.pc = "queryLLM"
    /\ check' = Return([check EXCEPT !.validation = "failed"],
                       Rejected(check.embeddingMatch))
    /\ UNCHANGED <<exactMatchCache, semanticHashCache, llmValidationCache, checks,
                   storeVars, otherVars>>

DedupNext ==
    \/ \E newContent \in NewContents, chatId \in Chats :
          \E existingContexts \in RelevantContexts(chatId) :
             CheckDuplicationCall(newContent, existingContexts, chatId)
    \/ CheckEmbeddingArrives
    \/ CheckEmbeddingFails
    \/ \E response \in ValidationResponses : ValidationAnswers(response)
    \/ ValidationFails

\* checkDuplication calls, one after the other, against an unchanging store
DedupSpec == DedupInit /\ [][DedupNext]_vars

(***************************************************************************)
(* The Deduplicator with its caches full or one entry short of full, as    *)
(* they are after that many checkDuplication calls on other texts found    *)
(* duplicates.                                                             *)
(***************************************************************************)
\* the keys of the earlier calls: content hashes, key word hashes and the
\* hashes of "q" + "|" + "0000", ...
EarlierKeys ==
    Tabulated([i \in 1..deduplicatorMaxCacheSize |->
                  [exact |-> generateContentHash(normalizeForComparison(Earlier(i))),
                   semantic |-> keyWordHash(Earlier(i)),
                   validation |-> generateContentHash(<<113, 124>> \o Tail(Earlier(i)))]])

InitialCacheSizes == {deduplicatorMaxCacheSize - 1, deduplicatorMaxCacheSize}

FullDeduplicatorInit ==
    /\ \E n \in InitialCacheSizes :
         /\ exactMatchCache = [i \in 1..n |-> [key |-> EarlierKeys[i].exact, value |-> 0]]
         /\ semanticHashCache =
                [i \in 1..n |-> [key |-> EarlierKeys[i].semantic, value |-> 0]]
         /\ llmValidationCache =
                [i \in 1..n |-> [key |-> EarlierKeys[i].validation, value |-> i % 2 = 0]]
    /\ check = IdleCheck
    /\ checks = 0

DedupFullInit == DedupStoreInit /\ FullDeduplicatorInit /\ OtherInit

DedupFullSpec == DedupFullInit /\ [][DedupNext]_vars

(***************************************************************************)
(* The EmbeddingsClient called directly (embeddings.ts): generateEmbedding *)
(* and generateBatchEmbeddings, one action per stretch of code between two *)
(* awaits.  The cache starts one entry short of maxCacheSize, as it is     *)
(* after that many texts were embedded one after the other.                *)
(***************************************************************************)
EmbedTexts == {Earlier(1), ParisA, ParisB, Blank}

BatchTexts == {Earlier(2), ParisA, Berlin}

Batches == UNION {[1..n -> BatchTexts] : n \in 1..MaxBatch}

EarlierEntries ==
    Tabulated([i \in 1..maxCacheSize |->
                  [key |-> generateCacheKey(normalizeText(Earlier(i))),
                   value |-> embedQuery(normalizeText(Earlier(i)))]])

ServiceStoreInit ==
    /\ contexts = [ch \in Chats |-> <<>>]
    /\ seenHashes = {}
    /\ contentEmbeddings = {}
    /\ embeddingCache = [i \in 1..(maxCacheSize - 1) |-> EarlierEntries[i]]
    /\ nextId = 1
    /\ now = 0
    /\ calls = [i \in CallIds |-> IdleCall]
    /\ toRemove = [chatId |-> "", removed |-> <<>>]
    /\ maintenance = 0

ServiceSpecInit == ServiceStoreInit /\ DeduplicatorInit /\ OtherInit

\* what no operation of the EmbeddingsClient touches
outsideService ==
    <<contexts, seenHashes, contentEmbeddings, now, nextId, calls, toRemove,
      maintenance, dedupVars, retrievalVars, memoryVars, hybridVars>>

\* the calls are made in the order of their numbers
MayStart(i) ==
    /\ embedCalls[i].pc = "idle"
    /\ i > 1 => embedCalls[i - 1].pc # "idle"

\* lines 32-51: up to the await of embedQuery
GenerateEmbeddingCall(i, text) ==
    /\ MayStart(i)
    /\ \E normalizedText \in {Normalized[text]} :
         embedCalls' = [embedCalls EXCEPT ![i] =
             IF Len(Trimmed[normalizedText]) = 0
             THEN [@ EXCEPT !.pc = "failed",
                            !.error = "empty text provided for embedding generation"]
             ELSE IF CacheHas(embeddingCache, CacheKeys[normalizedText])
             THEN [@ EXCEPT !.pc = "returned", !.texts = <<normalizedText>>,
                            !.results = <<CacheGet(embeddingCache,
                                                   CacheKeys[normalizedText])>>]
             ELSE [@ EXCEPT !.pc = "embedQuery", !.texts = <<normalizedText>>]]
    /\ UNCHANGED <<embeddingCache, outsideService>>

\* lines 53-74: the service answered with an embedding
EmbedQueryReturns(i) ==
    /\ embedCalls[i].pc = "embedQuery"
    /\ \E embedding \in {embedQuery(embedCalls[i].texts[1])} :
         /\ embeddingCache' = CachePut(embeddingCache,
                                       CacheKeys[embedCalls[i].texts[1]], embedding)
         /\ embedCalls' = [embedCalls EXCEPT ![i] =
                [@ EXCEPT !.pc = "returned", !.results = <<embedding>>,
                          !.attempts = @ + 1]]
    /\ UNCHANGED outsideService

\* lines 55-61 and 75-86: the service answered with something that is no
\* non-empty array
EmbedQueryInvalid(i) ==
    /\ embedCalls[i].pc = "embedQuery"
    /\ embedCalls' = [embedCalls EXCEPT ![i] =
           [@ EXCEPT !.pc = "failed", !.attempts = @ + 1,
                     !.error = "Embedding generation failed: invalid embedding response"]]
    /\ UNCHANGED <<embeddingCache, outsideService>>

\* lines 53 and 75-86: the call of the service failed or was cancelled
EmbedQueryFails(i) ==
    /\ embedCalls[i].pc = "embedQuery"
    /\ embedCalls' = [embedCalls EXCEPT ![i] =
           [@ EXCEPT !.pc = "failed", !.attempts = @ + 1,
                     !.error = "Embedding generation failed: service"]]
    /\ UNCHANGED <<embeddingCache, outsideService>>

\* lines 95-105: the indices of the texts the cache has no entry for, ascending
Uncached(normalizedTexts, cache) ==
    LET missing == {k \in 1..Len(normalizedTexts) :
                       ~CacheHas(cache, CacheKeys[normalizedTexts[k]])}
    IN  [j \in 1..Cardinality(missing) |->
            CHOOSE k \in missing : Cardinality({m \in missing : m < k}) = j - 1]

\* lines 89-110: up to the await of embedDocuments
GenerateBatchEmbeddingsCall(i, texts) ==
    /\ MayStart(i)
    /\ \E normalizedTexts \in {[k \in 1..Len(texts) |-> Normalized[texts[k]]]} :
       \E uncachedIndices \in {Uncached(normalizedTexts, embeddingCache)} :
         embedCalls' = [embedCalls EXCEPT ![i] =
             [@ EXCEPT !.pc = IF Len(uncachedIndices) = 0 THEN "returned"
                               ELSE "embedDocuments",
                       !.texts = normalizedTexts,
                       !.uncachedIndices = uncachedIndices,
                       !.results =
                           [k \in 1..Len(texts) |->
                               IF CacheHas(embeddingCache, CacheKeys[normalizedTexts[k]])
                               THEN CacheGet(embeddingCache, CacheKeys[normalizedTexts[k]])
                               ELSE <<>>]]]
    /\ UNCHANGED <<embeddingCache, outsideService>>

\* lines 116-131: the cache after the first n of the new embeddings were set
CachePutAll(cache, uncachedTexts, newEmbeddings) ==
    LET after[n \in 0..Len(uncachedTexts)] ==
            IF n = 0 THEN cache
            ELSE CachePut(after[n - 1], CacheKeys[uncachedTexts[n]], newEmbeddings[n])
    IN  after[Len(uncachedTexts)]

\* lines 112-131 and 140: the service answered with one embedding per text
EmbedDocumentsReturns(i) ==
    /\ embedCalls[i].pc = "embedDocuments"
    /\ \E c \in {embedCalls[i]} :
       \E uncachedTexts \in {[j \in 1..Len(c.uncachedIndices) |->
                                 c.texts[c.uncachedIndices[j]]]} :
       \E newEmbeddings \in {[j \in 1..Len(uncachedTexts) |->
                                 embedQuery(uncachedTexts[j])]} :
         /\ embeddingCache' = CachePutAll(embeddingCache, uncachedTexts, newEmbeddings)
         /\ embedCalls' = [embedCalls EXCEPT ![i] =
                [c EXCEPT !.pc = "returned", !.attempts = @ + 1,
                          !.results =
                              [k \in 1..Len(c.texts) |->
                                  IF \E j \in 1..Len(c.uncachedIndices) :
                                         c.uncachedIndices[j] = k
                                  THEN newEmbeddings[CHOOSE j \in 1..Len(c.uncachedIndices) :
                                                         c.uncachedIndices[j] = k]
                                  ELSE c.results[k]]]]
    /\ UNCHANGED outsideService

\* lines 112 and 132-139: the call of the service failed or was cancelled
EmbedDocumentsFails(i) ==
    /\ embedCalls[i].pc = "embedDocuments"
    /\ embedCalls' = [embedCalls EXCEPT ![i] =
           [@ EXCEPT !.pc = "failed", !.attempts = @ + 1,
                     !.error = "Batch embedding generation failed: service"]]
    /\ UNCHANGED <<embeddingCache, outsideService>>

ServiceNext ==
    \/ \E i \in EmbedCallIds, text \in EmbedTexts : GenerateEmbeddingCall(i, text)
    \/ \E i \in EmbedCallIds : EmbedQueryReturns(i)
    \/ \E i \in EmbedCallIds : EmbedQueryInvalid(i)
    \/ \E i \in EmbedCallIds : EmbedQueryFails(i)
    \/ \E i \in EmbedCallIds, texts \in Batches : GenerateBatchEmbeddingsCall(i, texts)
    \/ \E i \in EmbedCallIds : EmbedDocumentsReturns(i)
    \/ \E i \in EmbedCallIds : EmbedDocumentsFails(i)

ServiceSpec == ServiceSpecInit /\ [][ServiceNext]_vars

(***************************************************************************)
(* SemanticContextManager.getRelevantContext (part_017 lines 142-190) on a *)
(* store that holds five contexts for chat "A" and one for chat "B".       *)
(* Scores are kept exactly: a relevanceScore is the number below / 2000,   *)
(* with weights in tenths and the four component scores in 200ths.         *)
(***************************************************************************)
\* the context addContext(chat, content, contextType, confidence, {source})
\* left in the store when it stored the cleaned content
RetrievalContext(id, content, contextType, confidence, source, time) ==
    [AddedContext(id, content, confidence, time) EXCEPT
        !.contextType = contextType, !.metadata.source = source]

RetrievalStored ==
    << RetrievalContext(1, ParisA, "query_result", 9, "user", 0),
       RetrievalContext(2, ParisCity, "synthesis", 8, "web", -1),
       RetrievalContext(3, Filler(2), "user_input", 5, "user", -1),
       RetrievalContext(4, Filler(1), "subtask_result", 9, "user", 0),
       RetrievalContext(5, Filler(4), "decomposition", 7, "web", 0),
       RetrievalContext(6, Keywords, "query_result", 9, "user", 0) >>

RetrievalStoreInit ==
    /\ contexts = [ch \in Chats |-> IF ch = "A" THEN SubSeq(RetrievalStored, 1, 5)
                                    ELSE SubSeq(RetrievalStored, 6, 6)]
    /\ seenHashes = {RetrievalStored[k].semanticHash : k \in 1..Len(RetrievalStored)}
    /\ contentEmbeddings = {<<RetrievalStored[k].id, RetrievalStored[k].embedding>> :
                               k \in 1..Len(RetrievalStored)}
    /\ embeddingCache = [k \in 1..Len(RetrievalStored) |->
                            CacheEntry(RetrievalStored[k].content)]
    /\ nextId = Len(RetrievalStored) + 1
    /\ now = 0
    /\ calls = [i \in CallIds |-> IdleCall]
    /\ toRemove = [chatId |-> "", removed |-> <<>>]
    /\ maintenance = 0

RetrievalSpecInit == RetrievalStoreInit /\ DeduplicatorInit /\ OtherInit

\* what getRelevantContext is called with
RetrievalChats == Chats \cup {"C"}

Queries == {QueryCapital, Keywords, Blank}

NoFilter == IdleRetrieval.filter

Filters ==
    {NoFilter,
     [NoFilter EXCEPT !.maxAge = <<0>>],
     [NoFilter EXCEPT !.maxAge = <<1>>],
     [NoFilter EXCEPT !.minConfidence = <<8>>],
     [NoFilter EXCEPT !.contextTypes = <<{"query_result", "synthesis"}>>],
     [NoFilter EXCEPT !.metadata = <<[source |-> "user"]>>],
     [maxAge |-> <<1>>, minConfidence |-> <<8>>,
      contextTypes |-> <<{"query_result", "subtask_result"}>>,
      metadata |-> <<[source |-> "user"]>>]}

Rankings ==
    {IdleRetrieval.ranking,
     [semanticWeight |-> <<10>>, confidenceWeight |-> <<0>>,
      recencyWeight |-> <<0>>, typeWeight |-> <<0>>],
     [semanticWeight |-> <<0>>, confidenceWeight |-> <<5>>,
      recencyWeight |-> <<5>>, typeWeight |-> <<>>]}

TopKs == {0, 2, 5}

\* if (x) for an optional number, if (x) for an optional object
TruthyNumber(optional) == optional # <<>> /\ optional[1] # 0

Present(optional) == optional # <<>>

\* lines 341-367: the test of applyFilters' filter callback
passesFilters(context, filter, time) ==
    /\ TruthyNumber(filter.maxAge) => ~(time - context.timestamp > filter.maxAge[1])
    /\ TruthyNumber(filter.minConfidence)
           => ~(context.confidence < filter.minConfidence[1])
    /\ Present(filter.contextTypes) => context.contextType \in filter.contextTypes[1]
    /\ Present(filter.metadata)
           => \A key \in DOMAIN filter.metadata[1] :
                  /\ key \in DOMAIN context.metadata
                  /\ context.metadata[key] = filter.metadata[1][key]

\* lines 336-370
applyFilters(chatContexts, filter, time) ==
    LET passes(context) == passesFilters(context, filter, time)
    IN  SelectSeq(chatContexts, passes)

\* lines 384-390 and 406: typeScores[context.contextType] || 0.5, in tenths
typeScores(contextType) ==
    CASE contextType = "query_result" -> 10
      [] contextType = "subtask_result" -> 9
      [] contextType = "synthesis" -> 8
      [] contextType = "decomposition" -> 7
      [] contextType = "user_input" -> 6
      [] OTHER -> 5

\* ranking.semanticWeight ?? 0.4, in tenths
Weight(optional, default) == IF optional = <<>> THEN default ELSE optional[1]

\* the root of a square
Root(n) == CHOOSE r \in 0..n : r * r = n

\* scale times a cosine similarity, which is rational for the embeddings met
\* here and a whole number of 200ths and of 600ths
SimilarityTimes(similarity, scale) ==
    IF similarity.dot >= 0
    THEN (similarity.dot * scale) \div Root(similarity.nsq)
    ELSE 0 - (((0 - similarity.dot) * scale) \div Root(similarity.nsq))

\* lines 393-411: 2000 * relevanceScore; time runs in units of
\* maxContextAge * ln 2, so that Math.exp(-age / maxContextAge) is 2 ^ -age
relevanceScore(context, queryEmbedding, ranking, time) ==
      Weight(ranking.semanticWeight, 4)
          * SimilarityTimes(calculateCosineSimilarity(queryEmbedding, context.embedding),
                            200)
    + Weight(ranking.confidenceWeight, 2) * (context.confidence * 20)
    + Weight(ranking.recencyWeight, 2) * (200 \div (2 ^ (time - context.timestamp)))
    + Weight(ranking.typeWeight, 2) * (typeScores(context.contextType) * 20)

\* lines 372-418: copies of the contexts that carry their relevanceScore
calculateRelevanceScores(filteredContexts, queryEmbedding, ranking, time) ==
    [k \in 1..Len(filteredContexts) |->
        Spread(filteredContexts[k],
               [relevanceScore |->
                   relevanceScore(filteredContexts[k], queryEmbedding, ranking, time)])]

\* line 183: Array.prototype.sort, which is stable, by descending relevanceScore
sortByRelevance(scoredContexts) ==
    LET n == Len(scoredContexts)
        before(i, j) ==
            \/ scoredContexts[i].relevanceScore > scoredContexts[j].relevanceScore
            \/ /\ scoredContexts[i].relevanceScore = scoredContexts[j].relevanceScore
               /\ i < j
    IN  [p \in 1..n |->
            scoredContexts[CHOOSE i \in 1..n :
                               Cardinality({j \in 1..n : before(j, i)}) = p - 1]]

\* Array.prototype.slice(0, topK) for topK >= 0
slice(array, topK) == SubSeq(array, 1, Min(topK, Len(array)))

\* lines 166-189: from the query's embedding to the return value
relevantContexts(chatContexts, queryEmbedding, filter, ranking, topK, time) ==
    CHOOSE r \in
      {IF Len(filteredContexts) = 0 THEN <<>>
       ELSE slice(sortByRelevance(
                      calculateRelevanceScores(filteredContexts, queryEmbedding,
                                               ranking, time)), topK) :
         filteredContexts \in {applyFilters(chatContexts, filter, time)}} : TRUE

\* a scoring that writes each relevanceScore into the stored context
contextsScoredInPlace(chatContexts, filter, queryEmbedding, ranking, time) ==
    [k \in 1..Len(chatContexts) |->
        IF passesFilters(chatContexts[k], filter, time)
        THEN Spread(chatContexts[k],
                    [relevanceScore |->
                        relevanceScore(chatContexts[k], queryEmbedding, ranking, time)])
        ELSE chatContexts[k]]

\* lines 166 and 413-416: filter builds a new array and the map callback new
\* objects ({...context, relevanceScore}); the chat's array and its contexts
\* are not written
contextsAfterScoring(chatContexts, filter, queryEmbedding, ranking, time) ==
    chatContexts

\* lines 166-189: the call returns
Answer(r, queryEmbedding) ==
    /\ retrieval' =
           [r EXCEPT !.pc = "returned", !.queryEmbedding = queryEmbedding,
                     !.time = now,
                     !.result = relevantContexts(contexts[r.chatId], queryEmbedding,
                                                 r.filter, r.ranking, r.topK, now)]
    /\ contexts' = [contexts EXCEPT ![r.chatId] =
                       contextsAfterScoring(@, r.filter, queryEmbedding, r.ranking, now)]

\* what no operation of the retrieval touches
outsideRetrieval ==
    <<seenHashes, contentEmbeddings, now, nextId, calls, toRemove, maintenance,
      dedupVars, serviceVars, memoryVars, hybridVars>>

\* lines 142-164: an unknown or empty chat returns []; otherwise generateEmbedding
\* is started (embeddings.ts lines 32-51)
GetRelevantContextCall(chatId, query, filter, rankingWeights, topK) ==
    /\ retrieval.pc = "idle"
    /\ \E r \in {[retrieval EXCEPT !.chatId = chatId, !.query = query,
                                   !.filter = filter, !.ranking = rankingWeights,
                                   !.topK = topK]} :
       \E normalizedText \in {Normalized[query]} :
         IF chatId \notin Chats \/ Len(contexts[chatId]) = 0
         THEN /\ retrieval' = [r EXCEPT !.pc = "returned"]
              /\ UNCHANGED contexts
         ELSE IF Len(Trimmed[normalizedText]) = 0
         THEN /\ retrieval' = [r EXCEPT !.pc = "failed"]
              /\ UNCHANGED contexts
         ELSE IF CacheHas(embeddingCache, CacheKeys[normalizedText])
         THEN Answer(r, CacheGet(embeddingCache, CacheKeys[normalizedText]))
         ELSE /\ retrieval' = [r EXCEPT !.pc = "embedQuery"]
              /\ UNCHANGED contexts
    /\ UNCHANGED <<embeddingCache, rankCall, outsideRetrieval>>

\* embeddings.ts lines 53-74, then lines 166-189: the service answered
RetrievalEmbeddingArrives ==
    /\ retrieval.pc = "embedQuery"
    /\ \E normalizedText \in {Normalized[retrieval.query]} :
       \E embedding \in {embedQuery(normalizedText)} :
         /\ embeddingCache' = CachePut(embeddingCache, CacheKeys[normalizedText], embedding)
         /\ Answer(retrieval, embedding)
    /\ UNCHANGED <<rankCall, outsideRetrieval>>

\* embeddings.ts lines 75-86: the service failed; getRelevantContext rejects
RetrievalEmbeddingFails ==
    /\ retrieval.pc = "embedQuery"
    /\ retrieval' = [retrieval EXCEPT !.pc = "failed"]
    /\ UNCHANGED <<contexts, embeddingCache, rankCall, outsideRetrieval>>

RetrievalNext ==
    \/ \E chatId \in RetrievalChats, query \in Queries, filter \in Filters,
          rankingWeights \in Rankings, topK \in TopKs :
           GetRelevantContextCall(chatId, query, filter, rankingWeights, topK)
    \/ RetrievalEmbeddingArrives
    \/ RetrievalEmbeddingFails
    \/ Tick

RetrievalSpec == RetrievalSpecInit /\ [][RetrievalNext]_vars

(***************************************************************************)
(* ContextRank (context-rank.ts), called on what getRelevantContext        *)
(* returned, as QueryProcessor does (query.ts lines 230-255).  A weight is *)
(* in hundredths, a threshold a fraction <<numerator, denominator>>, a     *)
(* rule's score in 60000ths and a relevanceScore in 6000000ths.            *)
(***************************************************************************)
NoParams ==
    [minThreshold |-> <<>>, weight |-> <<>>, maxAge |-> <<>>, typeWeights |-> <<>>,
     requirements |-> <<>>, minMatchRatio |-> <<>>]

\* lines 4-14 and 36-56: the rules of the predefined strategies
SimilarityRule(minThreshold, weight) ==
    [type |-> "similarity", weight |-> weight,
     params |-> [NoParams EXCEPT !.minThreshold = <<minThreshold>>, !.weight = <<weight>>]]

ConfidenceRule(minThreshold, weight) ==
    [type |-> "confidence", weight |-> weight,
     params |-> [NoParams EXCEPT !.minThreshold = <<minThreshold>>, !.weight = <<weight>>]]

\* maxAge in minutes
AgeRule(maxAge, weight) ==
    [type |-> "age", weight |-> weight,
     params |-> [NoParams EXCEPT !.maxAge = <<maxAge>>, !.weight = <<weight>>]]

ContextTypeRule(typeWeights, weight) ==
    [type |-> "contextType", weight |-> weight,
     params |-> [NoParams EXCEPT !.typeWeights = <<typeWeights>>, !.weight = <<weight>>]]

CrossReferenceRule(weight) ==
    [type |-> "crossReference", weight |-> weight,
     params |-> [NoParams EXCEPT !.weight = <<weight>>]]

MetadataRule(requirements, weight) ==
    [type |-> "metadata", weight |-> weight,
     params |-> [NoParams EXCEPT !.requirements = <<requirements>>, !.weight = <<weight>>]]

\* lines 32-151
predefinedStrategies ==
    [high_precision |->
        [name |-> "High Precision",
         rules |-> << SimilarityRule(<<4, 5>>, 40), ConfidenceRule(<<7, 10>>, 30),
                      AgeRule(20, 20), CrossReferenceRule(10) >>],
     comprehensive |->
        [name |-> "Comprehensive",
         rules |-> << SimilarityRule(<<3, 5>>, 30), ConfidenceRule(<<1, 2>>, 20),
                      ContextTypeRule([query_result |-> 10, subtask_result |-> 9,
                                       synthesis |-> 8], 20),
                      AgeRule(30, 15), CrossReferenceRule(15) >>],
     recent_focus |->
        [name |-> "Recent Focus",
         rules |-> << AgeRule(15, 40), SimilarityRule(<<7, 10>>, 35),
                      ConfidenceRule(<<3, 5>>, 25) >>],
     fact_focused |->
        [name |-> "Fact Focused",
         rules |-> << ConfidenceRule(<<4, 5>>, 40),
                      ContextTypeRule([query_result |-> 10, subtask_result |-> 8,
                                       user_input |-> 3], 30),
                      SimilarityRule(<<3, 4>>, 30) >>]]

\* strategies a caller builds with createCustomStrategy (lines 430-436): a hard
\* age rule of 90 minutes, twice maxContextAge, with soft rules behind it; and
\* a hard rule on the context type that user input fails, with a rule of
\* weight 0.31
CustomStrategies ==
    {[name |-> "Lasting",
      rules |-> << AgeRule(90, 50), MetadataRule([source |-> "user"], 20),
                   ConfidenceRule(<<4, 5>>, 30) >>],
     [name |-> "No user input",
      rules |-> << ContextTypeRule([user_input |-> -5], 50),
                   SimilarityRule(<<3, 5>>, 31), CrossReferenceRule(30) >>]}

\* what filterAndRank is called with for its strategy: a name or a strategy
Strategies ==
    {[preset |-> <<name>>, custom |-> <<>>] :
        name \in DOMAIN predefinedStrategies \cup {"balanced"}}
        \cup {[preset |-> <<>>, custom |-> <<strategy>>] : strategy \in CustomStrategies}

CustomFilters == {<<>>, <<[NoFilter EXCEPT !.minConfidence = <<8>>]>>}

RankTopKs == {1, 10}

MaxSimilarities == {<<4, 5>>, <<7, 10>>, <<1, 2>>}

\* x > t[1]/t[2] for a similarity x and a fraction that is not negative
SimAbove(x, t) ==
    x.dot > 0 /\ t[2] * t[2] * x.dot * x.dot > t[1] * t[1] * x.nsq

\* params.weight || 1.0
paramsWeight(params) ==
    IF params.weight = <<>> \/ params.weight[1] = 0 THEN 100 ELSE params.weight[1]

\* params.minThreshold || 0.5
paramsMinThreshold(params) ==
    IF params.minThreshold = <<>> \/ params.minThreshold[1][1] = 0 THEN <<1, 2>>
    ELSE params.minThreshold[1]

\* lines 317-331
evaluateSimilarityRule(context, queryEmbedding, params) ==
    LET similarity == calculateCosineSimilarity(queryEmbedding, context.embedding)
    IN  [passes |-> SimAtLeast(similarity, paramsMinThreshold(params)),
         score |-> SimilarityTimes(similarity, 600) * paramsWeight(params)]

\* a confidence rule that gives more to less confidence
evaluateConfidenceRuleInverted(context, params) ==
    [passes |-> context.confidence * paramsMinThreshold(params)[2]
                    >= paramsMinThreshold(params)[1] * 10,
     score |-> (10 - context.confidence) * 60 * paramsWeight(params)]

\* lines 333-342; the confidence is in tenths
evaluateConfidenceRule(context, params) ==
    [passes |-> context.confidence * paramsMinThreshold(params)[2]
                    >= paramsMinThreshold(params)[1] * 10,
     score |-> context.confidence * 60 * paramsWeight(params)]

\* lines 344-357.  A unit of time is maxContextAge * ln 2 = 31.19 minutes, so a
\* context passes a limit below that at age 0 only, with Math.exp(0) = 1, and
\* the limit of 90 minutes up to age 2, with Math.exp(-2 * age / maxAge) =
\* 2 ^ -age; the score of an age that does not pass is not used.
evaluateAgeRule(context, params, time) ==
    LET age == time - context.timestamp
        maxAge == IF params.maxAge = <<>> THEN 30 ELSE params.maxAge[1]
    IN  [passes |-> age * 3119 <= maxAge * 100,
         score |-> (600 \div (2 ^ age)) * paramsWeight(params)]

\* lines 359-376; type weights in tenths
evaluateContextTypeRule(context, params) ==
    LET typeScore ==
            IF params.typeWeights = <<>> THEN typeScores(context.contextType)
            ELSE IF /\ context.contextType \in DOMAIN params.typeWeights[1]
                    /\ params.typeWeights[1][context.contextType] # 0
            THEN params.typeWeights[1][context.contextType]
            ELSE 5
    IN  [passes |-> typeScore > 0,
         score |-> typeScore * 60 * paramsWeight(params)]

\* lines 378-405
evaluateMetadataRule(context, params) ==
    LET requirements == IF params.requirements = <<>> THEN <<>>
                        ELSE params.requirements[1]
        totalChecks == Cardinality(DOMAIN requirements)
        matchCount == Cardinality({key \in DOMAIN requirements :
                                      /\ key \in DOMAIN context.metadata
                                      /\ context.metadata[key] = requirements[key]})
        minMatchRatio == IF params.minMatchRatio = <<>> \/ params.minMatchRatio[1][1] = 0
                         THEN <<1, 2>> ELSE params.minMatchRatio[1]
    IN  [passes |-> \/ totalChecks = 0
                    \/ matchCount * minMatchRatio[2] >= minMatchRatio[1] * totalChecks,
         score |-> IF totalChecks > 0
                   THEN ((matchCount * 600) \div totalChecks) * paramsWeight(params)
                   ELSE 0]

\* lines 407-428
evaluateCrossReferenceRule(context, params, allContexts) ==
    LET crossReferences ==
            Cardinality({k \in 1..Len(allContexts) :
                            /\ allContexts[k].id # context.id
                            /\ SimAbove(calculateCosineSimilarity(
                                            context.embedding, allContexts[k].embedding),
                                        <<7, 10>>)})
    IN  [passes |-> TRUE,
         score |-> Min(crossReferences * 200, 600) * paramsWeight(params)]

\* lines 278-315
evaluateRule(context, queryEmbedding, rule, allContexts, time) ==
    CASE rule.type = "similarity" ->
             evaluateSimilarityRule(context, queryEmbedding, rule.params)
      [] rule.type = "confidence" -> evaluateConfidenceRule(context, rule.params)
      [] rule.type = "age" -> evaluateAgeRule(context, rule.params, time)
      [] rule.type = "contextType" -> evaluateContextTypeRule(context, rule.params)
      [] rule.type = "metadata" -> evaluateMetadataRule(context, rule.params)
      [] rule.type = "crossReference" ->
             evaluateCrossReferenceRule(context, rule.params, allContexts)
      [] OTHER -> [passes |-> TRUE, score |-> 0]

\* a rule that excludes from weight 0.3 on
excludesFromThreshold(rule) == rule.weight >= 30

\* line 260: rule.weight > 0.3
excludes(rule) == rule.weight > 30

\* lines 246-265: the loop over the rules for one context, which ends at the
\* first rule that excludes
scoreContext(context, queryEmbedding, strategy, allContexts, time) ==
    LET after[n \in 0..Len(strategy.rules)] ==
            IF n = 0 THEN [finalScore |-> 0, passesFilters |-> TRUE]
            ELSE CHOOSE r \in
                   {IF ~before.passesFilters THEN before
                    ELSE IF ruleResult.passes
                    THEN [before EXCEPT !.finalScore =
                             @ + ruleResult.score * strategy.rules[n].weight]
                    ELSE IF excludes(strategy.rules[n])
                    THEN [before EXCEPT !.passesFilters = FALSE]
                    ELSE before :
                      before \in {after[n - 1]},
                      ruleResult \in {evaluateRule(context, queryEmbedding,
                                                   strategy.rules[n], allContexts,
                                                   time)}} : TRUE
    IN  after[Len(strategy.rules)]

\* lines 238-276
applyStrategyFiltering(filteredContexts, queryEmbedding, strategy, time) ==
    LET scored == [k \in 1..Len(filteredContexts) |->
                      scoreContext(filteredContexts[k], queryEmbedding, strategy,
                                   filteredContexts, time)] @@ <<>>
        kept == {k \in 1..Len(filteredContexts) : scored[k].passesFilters}
    IN  [j \in 1..Cardinality(kept) |->
            LET k == CHOOSE k \in kept : Cardinality({m \in kept : m < k}) = j - 1
            IN  Spread(filteredContexts[k], [relevanceScore |-> scored[k].finalScore])]

\* lines 164-168: a name that is not registered stands for "comprehensive"
rankingStrategy(strategy) ==
    IF strategy.preset # <<>>
    THEN IF strategy.preset[1] \in DOMAIN predefinedStrategies
         THEN predefinedStrategies[strategy.preset[1]]
         ELSE predefinedStrategies["comprehensive"]
    ELSE strategy.custom[1]

\* lines 174-176 and 202-236: applyBasicFilters tests what applyFilters tests
applyBasicFilters(inputContexts, customFilter, time) ==
    IF customFilter = <<>> THEN inputContexts
    ELSE applyFilters(inputContexts, customFilter[1], time)

\* lines 153-200
filterAndRank(call, time) ==
    CHOOSE r \in
      {[call EXCEPT !.pc = "returned", !.time = time,
                    !.filteredContexts = filteredContexts,
                    !.scoredContexts = scoredContexts,
                    !.result = slice(sortByRelevance(scoredContexts), call.topK)] :
         filteredContexts \in {applyBasicFilters(call.contexts, call.customFilter, time)},
         scoredContexts \in
             {applyStrategyFiltering(
                  applyBasicFilters(call.contexts, call.customFilter, time),
                  call.queryEmbedding, rankingStrategy(call.strategy), time)}} : TRUE

\* a test that also finds a candidate at the limit too similar
tooSimilarFrom(similarity, maxSimilarity) == SimAtLeast(similarity, maxSimilarity)

\* line 473: similarity > maxSimilarity
tooSimilar(similarity, maxSimilarity) == SimAbove(similarity, maxSimilarity)

\* lines 454-488: the indices of the contexts taken, after n were looked at
diversityFilter(inputContexts, maxSimilarity) ==
    LET taken[n \in 0..Len(inputContexts)] ==
            IF n = 0 THEN {}
            ELSE IF n = 1 THEN {1}
            ELSE CHOOSE r \in
                   {IF \E m \in selected :
                           tooSimilar(calculateCosineSimilarity(
                                          inputContexts[n].embedding,
                                          inputContexts[m].embedding), maxSimilarity)
                    THEN selected ELSE selected \cup {n} :
                      selected \in {taken[n - 1]}} : TRUE
        diverse == taken[Len(inputContexts)]
    IN  IF Len(inputContexts) <= 1 THEN inputContexts
        ELSE [j \in 1..Cardinality(diverse) |->
                 inputContexts[CHOOSE k \in diverse :
                                   Cardinality({m \in diverse : m < k}) = j - 1]]

\* what no operation of ContextRank touches
outsideRank ==
    <<storeVars, dedupVars, serviceVars, retrieval, memoryVars, hybridVars>>

\* query.ts lines 244-250: filterAndRank on the contexts retrieved
FilterAndRankCall(strategy, customFilter, topK) ==
    /\ retrieval.pc = "returned"
    /\ rankCall.pc = "idle"
    /\ rankCall' =
           IF Len(retrieval.result) = 0
           THEN [rankCall EXCEPT !.pc = "returned", !.operation = "filterAndRank",
                                 !.strategy = strategy, !.customFilter = customFilter,
                                 !.topK = topK, !.time = now]
           ELSE filterAndRank([rankCall EXCEPT !.operation = "filterAndRank",
                                               !.contexts = retrieval.result,
                                               !.queryEmbedding = retrieval.queryEmbedding,
                                               !.strategy = strategy,
                                               !.customFilter = customFilter,
                                               !.topK = topK], now)
    /\ UNCHANGED outsideRank

\* query.ts lines 252-255: diversityFilter on contexts that carry a score
DiversityFilterCall(maxSimilarity) ==
    /\ retrieval.pc = "returned"
    /\ rankCall.pc = "idle"
    /\ rankCall' = [rankCall EXCEPT !.pc = "returned", !.operation = "diversityFilter",
                                    !.contexts = retrieval.result,
                                    !.maxSimilarity = maxSimilarity,
                                    !.time = now,
                                    !.result = diversityFilter(retrieval.result,
                                                               maxSimilarity)]
    /\ UNCHANGED outsideRank

RankNext ==
    \/ \E chatId \in RetrievalChats, query \in Queries, filter \in Filters,
          rankingWeights \in Rankings, topK \in TopKs :
           GetRelevantContextCall(chatId, query, filter, rankingWeights, topK)
    \/ RetrievalEmbeddingArrives
    \/ RetrievalEmbeddingFails
    \/ Tick
    \/ \E strategy \in Strategies, customFilter \in CustomFilters, topK \in RankTopKs :
           FilterAndRankCall(strategy, customFilter, topK)
    \/ \E maxSimilarity \in MaxSimilarities : DiversityFilterCall(maxSimilarity)

RankSpec == RetrievalSpecInit /\ [][RankNext]_vars

(***************************************************************************)
(* MemoryManager (part_016).  A context's timestamp and Date.now() are in  *)
(* the units of the store's clock, 31.19 minutes, so that a day is         *)
(* 144000 / 3119 units; memoryUsage is in bytes, and a size in megabytes    *)
(* in 1024ths of a megabyte.                                               *)
(***************************************************************************)
Sentence == \* "The capital of France is Paris,  and the capital of Germany is Berlin!! "
    << 84, 104, 101, 32, 99, 97, 112, 105, 116, 97, 108, 32, 111, 102, 32,
       70, 114, 97, 110, 99, 101, 32, 105, 115, 32, 80, 97, 114, 105, 115,
       44, 32, 32, 97, 110, 100, 32, 116, 104, 101, 32, 99, 97, 112, 105,
       116, 97, 108, 32, 111, 102, 32, 71, 101, 114, 109, 97, 110, 121, 32,
       105, 115, 32, 66, 101, 114, 108, 105, 110, 33, 33, 32 >>

\* a text of 288 characters
LongReport == Sentence \o Sentence \o Sentence \o Sentence

\* line 330: the, a, an, and, or, but, in, on, at, to, for, of, with, by
stopWords ==
    {<<116, 104, 101>>,
     <<97>>,
     <<97, 110>>,
     <<97, 110, 100>>,
     <<111, 114>>,
     <<98, 117, 116>>,
     <<105, 110>>,
     <<111, 110>>,
     <<97, 116>>,
     <<116, 111>>,
     <<102, 111, 114>>,
     <<111, 102>>,
     <<119, 105, 116, 104>>,
     <<98, 121>>}

\* the stop words that stand at s[i] with white space behind them: one at most
StopWordsAt(s, i) ==
    {w \in stopWords :
        /\ i + Len(w) <= Len(s)
        /\ toLowerCase(SubSeq(s, i, i + Len(w) - 1)) = w
        /\ IsSpace(s[i + Len(w)])}

\* the first index from i on that holds no white space
AfterSpaces(s, i) ==
    CHOOSE j \in i..(Len(s) + 1) :
        /\ j = Len(s) + 1 \/ ~IsSpace(s[j])
        /\ \A m \in i..(j - 1) : IsSpace(s[m])

\* lines 329-332: replace(/\b(the|a|...|by)\s+/gi, ""); next is the index the
\* search goes on from
DropStopWords(s) ==
    LET block[b \in 0..LastBlock(Len(s))] ==
            IF b = 0 THEN [out |-> <<>>, next |-> 1]
            ELSE CHOOSE r \in
                   {LET at[i \in (8 * (b - 1))..Min(8 * b, Len(s))] ==
                            IF i = 8 * (b - 1) THEN start
                            ELSE IF i < at[i - 1].next THEN at[i - 1]
                            ELSE IF /\ i = 1 \/ ~IsWord(s[i - 1])
                                    /\ StopWordsAt(s, i) # {}
                            THEN [out |-> at[i - 1].out,
                                  next |-> AfterSpaces(s,
                                      i + Len(CHOOSE w \in StopWordsAt(s, i) : TRUE))]
                            ELSE [out |-> Append(at[i - 1].out, s[i]), next |-> i + 1]
                    IN  at[Min(8 * b, Len(s))] : start \in {block[b - 1]}} : TRUE
    IN  block[LastBlock(Len(s))].out

\* . , ; : ! ?
IsPunctuation(c) == c \in {46, 44, 59, 58, 33, 63}

\* line 333: replace(/[.,;:!?]+/g, ".")
Periods(s) ==
    LET block[b \in 0..LastBlock(Len(s))] ==
            IF b = 0 THEN <<>>
            ELSE CHOOSE r \in
                   {LET out[i \in (8 * (b - 1))..Min(8 * b, Len(s))] ==
                            IF i = 8 * (b - 1) THEN start
                            ELSE IF ~IsPunctuation(s[i]) THEN Append(out[i - 1], s[i])
                            ELSE IF i > 1 /\ IsPunctuation(s[i - 1]) THEN out[i - 1]
                            ELSE Append(out[i - 1], 46)
                    IN  out[Min(8 * b, Len(s))] : start \in {block[b - 1]}} : TRUE
    IN  block[LastBlock(Len(s))]

\* lines 326-335
compressContent(content) ==
    trim(CHOOSE r \in {Periods(s) : s \in
            {CHOOSE q \in {DropStopWords(t) : t \in {collapseWhitespace(content)}} :
                 TRUE}} : TRUE)

\* the texts the contexts of the MemoryManager hold, and what it makes of them
MemoryTexts == {ParisA, Berlin, LongReport, compressContent(LongReport)}

CompressedContents == Tabulated([t \in MemoryTexts |-> compressContent(t)])

\* the number of digits of a natural number
RECURSIVE Digits(_)
Digits(n) == IF n < 10 THEN 1 ELSE 1 + Digits(n \div 10)

\* the digits behind the point of a fraction below 1 that ends; one that does
\* not end is written with 16 of them
RECURSIVE FractionDigits(_, _, _)
FractionDigits(r, d, k) ==
    IF r = 0 \/ k = 16 THEN k ELSE FractionDigits((r * 10) % d, d, k + 1)

\* the length of String(x) for a ratio x = q[1]/q[2] in 0.000001 .. 1
RatioLength(q) ==
    IF q[1] = q[2] THEN 1 ELSE 2 + FractionDigits(q[1], q[2], 0)

\* the length of JSON.stringify(metadata), for the keys the contexts carry
JsonLength(metadata) ==
    LET member(key) ==
            CASE key = "source" ->
                     9 + (IF metadata.source = "user" THEN 4 ELSE 3) + 2
              [] key = "compressed" -> 13 + 4
              [] key = "originalLength" -> 17 + Digits(metadata.originalLength)
              [] key = "compressionRatio" -> 19 + RatioLength(metadata.compressionRatio)
        keys == DOMAIN metadata
        length(key) == IF key \in keys THEN member(key) ELSE 0
    IN  2 + length("source") + length("compressed") + length("originalLength")
          + length("compressionRatio")
          + (IF keys = {} THEN 0 ELSE Cardinality(keys) - 1)

\* lines 256-261: the size of one context
contextSize(context) ==
    Len(context.content) * 2 + Len(context.embedding) * 8
        + JsonLength(context.metadata) * 2 + 200

RECURSIVE SumSizes(_, _)
SumSizes(list, k) ==
    IF k > Len(list) THEN 0 ELSE contextSize(list[k]) + SumSizes(list, k + 1)

\* lines 251-266: updateMemoryUsage; totalSize, which the code divides by 1024 * 1024
updateMemoryUsage(contextsMap) ==
    LET totalSize[k \in 0..Len(contextsMap)] ==
            IF k = 0 THEN 0 ELSE totalSize[k - 1] + SumSizes(contextsMap[k].value, 1)
    IN  totalSize[Len(contextsMap)]

\* lines 232-235
totalContextsOf(contextsMap) ==
    LET sum[k \in 0..Len(contextsMap)] ==
            IF k = 0 THEN 0 ELSE sum[k - 1] + Len(contextsMap[k].value)
    IN  sum[Len(contextsMap)]

\* a test that lets the request store up to the limits themselves
canStoreUpTo(config, memoryUsage, totalContexts) ==
    /\ memoryUsage * 10 <= 9 * config.maxTotalMemoryMB * 1024
    /\ totalContexts * 100 <= 90 * config.maxTotalContexts

\* lines 237-242: memoryUsagePercent < 90 && contextCountPercent < 90
canStore(config, memoryUsage, totalContexts) ==
    /\ memoryUsage * 10 < 9 * config.maxTotalMemoryMB * 1024
    /\ totalContexts * 100 < 90 * config.maxTotalContexts

\* lines 268-273
shouldCompress(m) ==
    m.memoryUsage * 10 > m.config.maxTotalMemoryMB * 1024 * m.config.compressionThreshold

\* lines 275-277: chatContexts.length > maxContextsPerChat * 0.8
shouldArchive(m, chatContexts) ==
    Len(chatContexts) * 10 > m.config.maxContextsPerChat * 8

\* lines 187-192: the contexts of a chat that are younger than maxContextAgeDays
validContexts(chatContexts, config, time) ==
    LET kept == {k \in 1..Len(chatContexts) :
                    (time - chatContexts[k].timestamp) * 3119
                        < config.maxContextAgeDays * 144000}
    IN  [j \in 1..Cardinality(kept) |->
            chatContexts[CHOOSE k \in kept : Cardinality({m \in kept : m < k}) = j - 1]]

\* lines 183-200: the contexts below maxContextAgeDays stay; a chat left
\* without contexts is deleted
ageCleanup(contextsMap, config, time) ==
    LET entry[k \in 1..Len(contextsMap)] ==
            [key |-> contextsMap[k].key,
             value |-> validContexts(contextsMap[k].value, config, time)]
        kept == {k \in 1..Len(contextsMap) : Len(entry[k].value) > 0}
    IN  [j \in 1..Cardinality(kept) |->
            entry[CHOOSE k \in kept : Cardinality({m \in kept : m < k}) = j - 1]]

\* Array.sort: a list in the order of its elements' keys as they grow,
\* elements of one key in the order they had
SortedBy(list, keys) ==
    [j \in 1..Len(list) |->
        list[CHOOSE k \in 1..Len(list) :
                Cardinality({m \in 1..Len(list) :
                                \/ keys[m] < keys[k]
                                \/ keys[m] = keys[k] /\ m < k}) = j - 1]]

\* lines 445-466: the fifth of the chats that were accessed longest ago keep
\* their last 5 contexts
removeInactiveContexts(contextsMap, accessPatterns) ==
    LET chatAccess == SortedBy(accessPatterns,
                               [k \in 1..Len(accessPatterns) |->
                                   accessPatterns[k].value.lastAccess])
        chatsToReduce == {chatAccess[k].key :
                             k \in 1..((Len(chatAccess) * 2 + 9) \div 10)}
    IN  [k \in 1..Len(contextsMap) |->
            IF contextsMap[k].key \in chatsToReduce /\ Len(contextsMap[k].value) > 5
            THEN [contextsMap[k] EXCEPT
                     !.value = SubSeq(@, Len(@) - 4, Len(@))]
            ELSE contextsMap[k]]

\* lines 286-294: the context is older than seven days and longer than 200
isCompressible(context, time) ==
    /\ (time - context.timestamp) * 3119 > 7 * 144000
    /\ Len(context.content) > 200

\* lines 295-302
compressedContext(context) ==
    [context EXCEPT
        !.content = CompressedContents[@],
        !.metadata = Spread(@, [compressed |-> TRUE,
                                originalLength |-> Len(context.content),
                                compressionRatio |->
                                    <<Len(CompressedContents[context.content]),
                                      Len(context.content)>>])]

\* lines 279-324: compressOldContexts writes into the contexts it finds
compressOldContexts(contextsMap, time) ==
    [k \in 1..Len(contextsMap) |->
        [contextsMap[k] EXCEPT
            !.value = [i \in 1..Len(@) |->
                          IF isCompressible(@[i], time) THEN compressedContext(@[i])
                          ELSE @[i]]]]

\* lines 300-302 and 366: an archived context holds the metadata object of the
\* context it was made of, and shows what is written into it for as long as
\* the map holds that context
archiveAfterCompression(archivedContexts, contextsMap, time) ==
    LET held(entry) ==
            UNION {{contextsMap[k].value[c] :
                       c \in {c \in 1..Len(contextsMap[k].value) :
                                 /\ contextsMap[k].value[c].id = entry.contextId
                                 /\ contextsMap[k].value[c].metadata = entry.metadata
                                 /\ isCompressible(contextsMap[k].value[c], time)}} :
                   k \in 1..Len(contextsMap)}
        written(entry) ==
            [entry EXCEPT !.metadata =
                compressedContext(CHOOSE context \in held(entry) : TRUE).metadata]
    IN  [a \in 1..Len(archivedContexts) |->
            [key |-> archivedContexts[a].key,
             value |-> [i \in 1..Len(archivedContexts[a].value) |->
                           IF held(archivedContexts[a].value[i]) # {}
                           THEN written(archivedContexts[a].value[i])
                           ELSE archivedContexts[a].value[i]]]]

\* whether compressOldContexts found a context to compress (lines 304 and 318)
compressedAny(contextsMap, time) ==
    \E k \in 1..Len(contextsMap) : \E c \in 1..Len(contextsMap[k].value) :
        isCompressible(contextsMap[k].value[c], time)

\* lines 351-372: the oldest 30% of the chat's contexts, as archive entries
toArchive(chatId, chatContexts, time) ==
    LET sortedContexts == SortedBy(chatContexts,
                                   [k \in 1..Len(chatContexts) |->
                                       chatContexts[k].timestamp])
    IN  [k \in 1..((Len(chatContexts) * 3) \div 10) |->
            [chatId |-> chatId, contextId |-> sortedContexts[k].id,
             content |-> sortedContexts[k].content,
             metadata |-> sortedContexts[k].metadata,
             archivedAt |-> time,
             originalTimestamp |-> sortedContexts[k].timestamp,
             compressionRatio |->
                 IF "compressionRatio" \in DOMAIN sortedContexts[k].metadata
                 THEN sortedContexts[k].metadata.compressionRatio
                 ELSE <<1, 1>>]]

\* lines 341-346: archiveOldContexts goes on only over the cap
archives(m, chatContexts) ==
    m.config.archivalEnabled /\ Len(chatContexts) > m.config.maxContextsPerChat

\* lines 374-378
archiveOldContexts(archivedContexts, chatId, chatContexts, time) ==
    MapSet(archivedContexts, chatId,
           (IF CacheHas(archivedContexts, chatId)
            THEN CacheGet(archivedContexts, chatId) ELSE <<>>)
               \o toArchive(chatId, chatContexts, time))

\* lines 186-191: how many contexts performCleanup counts as removed
contextsRemoved(contextsMap, config, time) ==
    totalContextsOf(contextsMap) - totalContextsOf(ageCleanup(contextsMap, config, time))

\* lines 397-414: an archived context as retrieveContexts hands it out, with
\* confidence 0.6 and relevanceScore 0.5
convertArchivedToSemantic(archived) ==
    [k \in 1..Len(archived) |->
        [id |-> archived[k].contextId, content |-> archived[k].content,
         embedding |-> <<>>, confidence |-> 6,
         metadata |-> Spread(archived[k].metadata,
                             [archived |-> TRUE, archivedAt |-> archived[k].archivedAt]),
         timestamp |-> archived[k].originalTimestamp, relevanceScore |-> <<5>>]]

\* lines 128-170: the chat's active contexts, followed by its archived ones
\* if they are asked for and archival is enabled
retrieveContexts(chatId, contextsMap, m, includeArchived) ==
    (IF CacheHas(contextsMap, chatId) THEN CacheGet(contextsMap, chatId) ELSE <<>>)
        \o (IF includeArchived /\ m.config.archivalEnabled
                  /\ CacheHas(m.archivedContexts, chatId)
            THEN convertArchivedToSemantic(CacheGet(m.archivedContexts, chatId))
            ELSE <<>>)

\* lines 429-430: relevanceScore ?? 0 times 0.7 plus confidence times 0.3, with
\* both in tenths
trimScore(context) ==
    (IF context.relevanceScore = <<>> THEN 0 ELSE context.relevanceScore[1]) * 7
        + context.confidence * 3

\* a trim that keeps the first maxContextsPerChat contexts in the order the
\* chat holds them
maintainChatLimitsUnsorted(contextsMap, chatId, config) ==
    IF ~CacheHas(contextsMap, chatId)
           \/ Len(CacheGet(contextsMap, chatId)) <= config.maxContextsPerChat
    THEN contextsMap
    ELSE MapSet(contextsMap, chatId,
                SubSeq(CacheGet(contextsMap, chatId), 1, config.maxContextsPerChat))

\* lines 416-443: the best maxContextsPerChat contexts of a chat over the cap
maintainChatLimits(contextsMap, chatId, config) ==
    IF ~CacheHas(contextsMap, chatId)
           \/ Len(CacheGet(contextsMap, chatId)) <= config.maxContextsPerChat
    THEN contextsMap
    ELSE LET chatContexts == CacheGet(contextsMap, chatId)
         IN  MapSet(contextsMap, chatId,
                    SubSeq(SortedBy(chatContexts,
                                    [k \in 1..Len(chatContexts) |->
                                        0 - trimScore(chatContexts[k])]),
                           1, config.maxContextsPerChat))

\* a context as the caller's map holds it; relevanceScore is <<>> if it has none
ManagedContext(id, content, confidence, timestamp, score) ==
    [id |-> id, content |-> content, embedding |-> <<0, 0, 1>>,
     confidence |-> confidence, metadata |-> [source |-> "user"],
     timestamp |-> timestamp, relevanceScore |-> score]

\* maps a caller holds: two chats with nine contexts, some older than seven
\* and some older than thirty days; five contexts, three of them long; five
\* short ones; a single one; and two chats with five new contexts each
ManagedMaps ==
    {<< [key |-> "A", value |->
            << ManagedContext(1, LongReport, 9, -400, <<>>),
               ManagedContext(2, ParisA, 5, -400, <<>>),
               ManagedContext(3, ParisA, 7, -100, <<>>),
               ManagedContext(4, Berlin, 5, -100, <<9>>),
               ManagedContext(5, ParisA, 9, 0, <<>>),
               ManagedContext(6, Berlin, 8, 0, <<>>) >>],
        [key |-> "B", value |->
            << ManagedContext(7, Berlin, 9, -1400, <<>>),
               ManagedContext(8, ParisA, 5, -100, <<>>),
               ManagedContext(9, ParisA, 9, 0, <<>>) >>] >>,
     << [key |-> "A", value |->
            << ManagedContext(1, LongReport, 9, -400, <<>>),
               ManagedContext(2, LongReport, 5, -100, <<5>>),
               ManagedContext(3, LongReport, 7, 0, <<>>),
               ManagedContext(4, Berlin, 5, -100, <<>>) >>],
        [key |-> "B", value |-> << ManagedContext(7, Berlin, 9, -400, <<>>) >>] >>,
     << [key |-> "A", value |->
            << ManagedContext(1, Berlin, 9, -400, <<>>),
               ManagedContext(2, ParisA, 5, -100, <<>>),
               ManagedContext(3, ParisA, 7, -100, <<9>>),
               ManagedContext(4, Berlin, 5, 0, <<>>) >>],
        [key |-> "B", value |-> << ManagedContext(7, Berlin, 9, 0, <<>>) >>] >>,
     << [key |-> "A", value |-> << ManagedContext(1, ParisA, 9, 0, <<>>) >>] >>,
     << [key |-> "A", value |->
            [i \in 1..5 |-> ManagedContext(i, ParisA, 4 + i, 0, <<>>)]],
        [key |-> "B", value |->
            [i \in 1..5 |-> ManagedContext(5 + i, Berlin, 4 + i, 0, <<>>)]] >>}

\* configurations given to the constructor (lines 59-70): small limits, with
\* archival switched off, a longer maxContextAgeDays or the default
\* maxTotalMemoryMB
MemoryConfigs ==
    {[defaultConfig EXCEPT !.maxTotalContexts = 10, !.maxContextsPerChat = 5,
                           !.maxTotalMemoryMB = 3,
                           !.maxContextAgeDays = maxContextAgeDays,
                           !.archivalEnabled = archivalEnabled] :
        maxContextAgeDays \in {7, 30}, archivalEnabled \in BOOLEAN}
        \cup {[defaultConfig EXCEPT !.maxTotalContexts = 10, !.maxContextsPerChat = 5]}

MemorySpecInit ==
    /\ StoreInit /\ DeduplicatorInit /\ ServiceInit /\ RetrievalInit /\ HybridInit
    /\ managed \in ManagedMaps
    /\ memory \in {NewMemoryManager(config) : config \in MemoryConfigs}
    /\ storage = IdleStorage

MemoryChats == {"A", "B", "C"}

\* what the new context of a request holds: content, confidence, relevanceScore
NewEntries == {<<ParisA, 9, <<>> >>, <<Berlin, 5, <<9>> >>, <<LongReport, 7, <<>> >>}

\* what no operation of the MemoryManager touches
outsideMemory == <<storeVars, dedupVars, serviceVars, retrievalVars, hybridVars>>

\* lines 74-85: updateMemoryUsage, trackAccess and checkMemoryLimits
ManageContextStorageCall(chatId, entry) ==
    /\ storage.pc \in {"idle", "returned"}
    /\ storage.calls < MaxStorageCalls
    /\ \E memoryUsage \in {updateMemoryUsage(managed)},
          totalContexts \in {totalContextsOf(managed)} :
         /\ memory' =
                [memory EXCEPT
                    !.memoryUsage = memoryUsage,
                    !.accessPatterns =
                        MapSet(@, chatId,
                               [lastAccess |-> now,
                                accessCount |->
                                    IF CacheHas(@, chatId)
                                    THEN CacheGet(@, chatId).accessCount + 1
                                    ELSE 1])]
         /\ storage' =
                [IdleStorage EXCEPT
                    !.pc = "checked", !.chatId = chatId,
                    !.newContext = ManagedContext(100 + storage.calls, entry[1],
                                                  entry[2], now, entry[3]),
                    !.totalContexts = totalContexts,
                    !.canStore = canStore(memory.config, memoryUsage, totalContexts),
                    !.calls = storage.calls + 1,
                    !.retrievals = storage.retrievals]
    /\ UNCHANGED <<managed, outsideMemory>>

\* lines 86-91 and 172-223: performCleanup
PerformCleanup ==
    /\ storage.pc = "checked"
    /\ ~storage.canStore
    /\ \E reduce \in {memory.memoryUsage * 10 > memory.config.maxTotalMemoryMB * 1024 * 8},
          compress \in {shouldCompress(memory)} :
       \E valid \in {ageCleanup(managed, memory.config, now)} :
       \E reduced \in {IF reduce THEN removeInactiveContexts(valid, memory.accessPatterns)
                       ELSE valid} :
         /\ managed' = IF compress THEN compressOldContexts(reduced, now) ELSE reduced
         /\ memory' = IF compress
                      THEN [memory EXCEPT !.archivedContexts =
                               archiveAfterCompression(@, reduced, now)]
                      ELSE memory
         /\ storage' = [storage EXCEPT
                           !.pc = "cleaned",
                           \* lines 179 and 210-222: no step of the pass writes
                           \* memoryUsage between the two reads of it
                           !.cleanup =
                               [contextsRemoved |->
                                    contextsRemoved(managed, memory.config, now),
                                chatsRemoved |-> Len(managed) - Len(valid),
                                memoryFreedMB |->
                                    memory.memoryUsage - memory.memoryUsage],
                           !.did = @ \o <<"ageCleanup">>
                                     \o (IF reduce THEN <<"removeInactive">> ELSE <<>>)
                                     \o (IF compress THEN <<"compression">> ELSE <<>>)]
    /\ UNCHANGED outsideMemory

\* lines 94-103: the new context is pushed, and compressOldContexts runs if
\* shouldCompress
AppendContext ==
    /\ \/ storage.pc = "checked" /\ storage.canStore
       \/ storage.pc = "cleaned"
    /\ \E compress \in {shouldCompress(memory)} :
       \E pushed \in {MapSet(managed, storage.chatId,
                             Append(IF CacheHas(managed, storage.chatId)
                                    THEN CacheGet(managed, storage.chatId) ELSE <<>>,
                                    storage.newContext))} :
         /\ managed' = IF compress THEN compressOldContexts(pushed, now) ELSE pushed
         /\ memory' = IF compress
                      THEN [memory EXCEPT !.archivedContexts =
                               archiveAfterCompression(@, pushed, now)]
                      ELSE memory
         /\ storage' = [storage EXCEPT
                           !.pc = "appended",
                           !.compressed = compress /\ compressedAny(pushed, now),
                           !.did = @ \o <<"append">>
                                     \o (IF compress THEN <<"compression">> ELSE <<>>)]
    /\ UNCHANGED outsideMemory

\* lines 105-110: archiveOldContexts, if archival is enabled and shouldArchive
ArchiveStage ==
    /\ storage.pc = "appended"
    /\ \E chatContexts \in {CacheGet(managed, storage.chatId)} :
       \E archive \in {/\ memory.config.archivalEnabled
                       /\ shouldArchive(memory, chatContexts)
                       /\ archives(memory, chatContexts)} :
         /\ memory' = IF archive
                      THEN [memory EXCEPT !.archivedContexts =
                               archiveOldContexts(@, storage.chatId, chatContexts, now)]
                      ELSE memory
         /\ storage' = [storage EXCEPT
                           !.pc = "archivalDone",
                           !.chatContexts = chatContexts,
                           !.archived = archive,
                           !.did = @ \o (IF archive THEN <<"archival">> ELSE <<>>)]
    /\ UNCHANGED <<managed, outsideMemory>>

\* line 112: maintainChatLimits
MaintainChatLimitsStage ==
    /\ storage.pc = "archivalDone"
    /\ managed' = maintainChatLimits(managed, storage.chatId, memory.config)
    /\ storage' = [storage EXCEPT
                      !.pc = "trimmed",
                      !.did = @ \o (IF Len(CacheGet(managed, storage.chatId))
                                          > memory.config.maxContextsPerChat
                                    THEN <<"trim">> ELSE <<>>)]
    /\ UNCHANGED <<memory, outsideMemory>>

\* lines 114-121
StorageReturns ==
    /\ storage.pc = "trimmed"
    /\ storage' = [storage EXCEPT
                      !.pc = "returned",
                      !.result = [stored |-> TRUE, compressed |-> storage.compressed,
                                  archived |-> storage.archived]]
    /\ UNCHANGED <<managed, memory, outsideMemory>>

\* lines 128-170: retrieveContexts, called by a caller that awaits each call
\* of the MemoryManager before it makes the next
RetrieveContextsCall(chatId, includeArchived) ==
    /\ storage.pc \in {"idle", "returned"}
    /\ storage.retrievals < MaxRetrievals
    /\ memory' = [memory EXCEPT
                     !.accessPatterns =
                         MapSet(@, chatId,
                                [lastAccess |-> now,
                                 accessCount |->
                                     IF CacheHas(@, chatId)
                                     THEN CacheGet(@, chatId).accessCount + 1
                                     ELSE 1])]
    /\ storage' = [storage EXCEPT
                      !.retrievals = @ + 1,
                      !.retrieved = retrieveContexts(chatId, managed, memory,
                                                     includeArchived)]
    /\ UNCHANGED <<managed, outsideMemory>>

\* lines 482-486: the callback of the cleanup timer writes a line to the
\* console
PeriodicCleanupFires ==
    /\ memory.cleanupInterval
    /\ UNCHANGED vars

\* lines 578-587: shutdown
Shutdown ==
    /\ storage.pc \in {"idle", "returned"}
    /\ memory.cleanupInterval
    /\ memory' = [memory EXCEPT !.cleanupInterval = FALSE,
                                !.archivedContexts = <<>>,
                                !.accessPatterns = <<>>]
    /\ UNCHANGED <<managed, storage, outsideMemory>>

\* time passes between two requests
MemoryTick ==
    /\ storage.pc \in {"idle", "returned"}
    /\ Tick

MemoryNext ==
    \/ \E chatId \in MemoryChats, entry \in NewEntries :
           ManageContextStorageCall(chatId, entry)
    \/ PerformCleanup
    \/ AppendContext
    \/ ArchiveStage
    \/ MaintainChatLimitsStage
    \/ StorageReturns
    \/ MemoryTick

MemorySpec == MemorySpecInit /\ [][MemoryNext]_vars

\* a MemoryManager with archival enabled, from its construction to its
\* shutdown, and a caller that holds few or many contexts
MemoryLifeInit ==
    /\ StoreInit /\ DeduplicatorInit /\ ServiceInit /\ RetrievalInit /\ HybridInit
    /\ managed \in {map \in ManagedMaps : Len(map[1].value) > 4}
    /\ memory \in {NewMemoryManager(config) :
                      config \in {c \in MemoryConfigs :
                                     c.archivalEnabled /\ c.maxTotalMemoryMB = 3}}
    /\ storage = IdleStorage

MemoryLifeNext ==
    \/ MemoryNext
    \/ \E chatId \in MemoryChats, includeArchived \in BOOLEAN :
           RetrieveContextsCall(chatId, includeArchived)
    \/ PeriodicCleanupFires
    \/ Shutdown

\* the timer fires for as long as it is set, and a request that was started
\* goes on to its end
MemoryLifeSpec ==
    /\ MemoryLifeInit
    /\ [][MemoryLifeNext]_vars
    /\ WF_vars(PeriodicCleanupFires)
    /\ WF_vars(PerformCleanup \/ AppendContext \/ ArchiveStage
                   \/ MaintainChatLimitsStage \/ StorageReturns)

(***************************************************************************)
(* Properties of the Semantic Context Store.                               *)
(***************************************************************************)
\* the positions in a chat's array of the contexts stored under a hash
StoredUnder(ctxs, chatId, semanticHash) ==
    {k \in 1..Len(ctxs[chatId]) : ctxs[chatId][k].semanticHash = semanticHash}

SameAdd(i, j) ==
    /\ calls[i].chatId = calls[j].chatId
    /\ calls[i].content = calls[j].content

\* C1: every chat holds at most maxContextsPerChat (15) contexts, in every state
\* the adds, interleaved at their awaits or not, lead to.
CapacityInvariant ==
    \A chatId \in Chats : Len(contexts[chatId]) <= maxContextsPerChat

\* an add has returned after pushing a chat over the cap and evicting from it
CapacityWitness ==
    \E i \in CallIds :
        /\ calls[i].pc = "returned"
        /\ calls[i].outcome = "stored"
        /\ toRemove.chatId = calls[i].chatId
        /\ toRemove.removed # <<>>
        /\ Len(contexts[calls[i].chatId]) = maxContextsPerChat

\* C2, as the spec states it: once two adds of the same content to the same chat
\* have returned one after the other (and nothing was cleared or cleaned up), the
\* chat holds exactly one context for that content.
TwiceLeavesOne ==
    \A i, j \in CallIds :
        (/\ i < j
         /\ calls[i].pc = "returned"
         /\ calls[j].pc = "returned"
         /\ SameAdd(i, j)
         /\ maintenance = 0)
        => Cardinality(StoredUnder(contexts, calls[j].chatId, calls[j].semanticHash)) = 1

\* C2, amended: when an add returns whose content the chat held a context for
\* when it was made, and still holds, the chat then holds exactly one context
\* for it and no more contexts than when the add was made, and if the add's
\* confidence is strictly higher than the stored one, the stored confidence has
\* become the add's.
IdempotentAdd ==
    [][\A j \in CallIds :
          LET chatId == calls[j].chatId
              before == StoredUnder(contexts, chatId, calls[j].semanticHash)
              after == StoredUnder(contexts', chatId, calls[j].semanticHash)
          IN  (/\ InFlight(calls[j])
               /\ calls'[j].pc = "returned"
               /\ calls[j].knownBefore
               /\ before # {})
              => /\ Cardinality(after) = 1
                 /\ Len(contexts'[chatId]) <= calls[j].countBefore
                 /\ \A k \in before, m \in after :
                       calls[j].confidence > contexts[chatId][k].confidence
                       => contexts'[chatId][m].confidence = calls[j].confidence
      ]_vars

\* the second of two adds of the same content, made after the first had stored
\* it, has raised the confidence of the one context the chat holds for it
IdempotentAddWitness ==
    \E i, j \in CallIds :
        /\ i < j
        /\ SameAdd(i, j)
        /\ calls[i].outcome = "stored"
        /\ calls[j].outcome = "updated"
        /\ calls[j].knownBefore
        /\ calls[i].confidence < calls[j].confidence
        /\ \E k \in 1..Len(contexts[calls[j].chatId]) :
              /\ StoredUnder(contexts, calls[j].chatId, calls[j].semanticHash) = {k}
              /\ contexts[calls[j].chatId][k].confidence = calls[j].confidence

\* C3: two adds of the same content to the same chat, overlapping at their
\* awaits, leave the chat with no more than the one context for that content
\* that they leave when one runs after the other.
ConcurrentAddsLeaveOne ==
    \A i, j \in CallIds :
        (/\ i < j
         /\ calls[i].pc = "returned"
         /\ calls[j].pc = "returned"
         /\ SameAdd(i, j))
        => Cardinality(StoredUnder(contexts, calls[j].chatId, calls[j].semanticHash)) <= 1

\* C4: while a context stays in the store its confidence never decreases, and it
\* changes only in the last step of a duplicate add to its chat, to that add's
\* confidence, which is strictly greater.
ConfidenceOnlyRises ==
    [][\A chatId \in Chats :
          \A k \in 1..Len(contexts[chatId]), m \in 1..Len(contexts'[chatId]) :
              LET old == contexts[chatId][k]
                  new == contexts'[chatId][m]
              IN  old.id = new.id
                  => /\ new.confidence >= old.confidence
                     /\ new.confidence # old.confidence
                        => \E i \in CallIds :
                              /\ calls[i].pc = "updateLoop"
                              /\ calls'[i].pc = "returned"
                              /\ calls[i].chatId = chatId
                              /\ calls[i].confidence = new.confidence
                              /\ calls[i].confidence > old.confidence
      ]_vars

\* a duplicate add has raised the confidence of a context an earlier add stored
ConfidenceOnlyRisesWitness ==
    \E i, j \in CallIds, k \in 1..maxContextsPerChat :
        /\ calls[i].outcome = "stored"
        /\ calls[j].outcome = "updated"
        /\ calls[i].chatId = calls[j].chatId
        /\ calls[i].confidence < calls[j].confidence
        /\ k <= Len(contexts[calls[i].chatId])
        /\ contexts[calls[i].chatId][k].semanticHash = calls[i].semanticHash
        /\ contexts[calls[i].chatId][k].confidence = calls[j].confidence

\* the part of a context a duplicate add must leave alone
Identity(context) ==
    [id |-> context.id, content |-> context.content,
     embedding |-> context.embedding, semanticHash |-> context.semanticHash]

\* C5: no step of an add that was detected as a duplicate changes the number of
\* contexts of a chat, the id, content, embedding or semanticHash of a context,
\* or the hash index; and such a step changes the contexts only by raising one
\* context's confidence to the add's own, strictly greater one.
DuplicateAddFrame ==
    [][\A i \in CallIds :
          (/\ calls[i].pc \in {"updateExistingContext", "updateEmbedQuery", "updateLoop"}
           /\ calls'[i].pc # calls[i].pc)
          => /\ \A chatId \in Chats :
                   /\ Len(contexts'[chatId]) = Len(contexts[chatId])
                   /\ \A k \in 1..Len(contexts[chatId]) :
                         Identity(contexts'[chatId][k]) = Identity(contexts[chatId][k])
             /\ seenHashes' = seenHashes
             /\ contentEmbeddings' = contentEmbeddings
             /\ contexts' # contexts
                => \E k \in 1..Len(contexts[calls[i].chatId]) :
                      /\ contexts[calls[i].chatId][k].confidence < calls[i].confidence
                      /\ contexts'[calls[i].chatId][k].confidence = calls[i].confidence
                      /\ \A chatId \in Chats :
                            \A m \in 1..Len(contexts[chatId]) :
                                <<chatId, m>> # <<calls[i].chatId, k>>
                                => contexts'[chatId][m] = contexts[chatId][m]
      ]_vars

\* a duplicate add of no higher confidence has returned, the context it
\* duplicates still in its chat
DuplicateAddFrameWitness ==
    \E i \in CallIds :
        /\ calls[i].outcome = "duplicate_noop"
        /\ \E k \in StoredUnder(contexts, calls[i].chatId, calls[i].semanticHash) :
              contexts[calls[i].chatId][k].confidence >= calls[i].confidence

\* C6: an eviction leaves the chat with exactly maxContextsPerChat contexts, and
\* no context it removes has a higher score confidence * exp(-age / maxContextAge)
\* than a context it keeps.
EvictionKeepsBest ==
    [][toRemove' # toRemove
       => /\ Len(contexts'[toRemove'.chatId]) = maxContextsPerChat
          /\ \A r \in Range(toRemove'.removed), k \in Range(contexts'[toRemove'.chatId]) :
                r.confidence * 2 ^ (MaxTime + 1 - (now - r.timestamp))
                    <= k.confidence * 2 ^ (MaxTime + 1 - (now - k.timestamp))
      ]_vars

\* an add took a chat over the cap, and the eviction removed a context that
\* scored strictly lower than the one the add stored
EvictionKeepsBestWitness ==
    /\ toRemove.removed # <<>>
    /\ Len(contexts[toRemove.chatId]) = maxContextsPerChat
    /\ \E i \in CallIds, k \in 1..maxContextsPerChat :
          /\ calls[i].outcome = "stored"
          /\ calls[i].chatId = toRemove.chatId
          /\ k \in StoredUnder(contexts, toRemove.chatId, calls[i].semanticHash)
          /\ \E r \in Range(toRemove.removed) :
                r.confidence * 2 ^ (MaxTime + 1 - (now - r.timestamp))
                    < contexts[toRemove.chatId][k].confidence
                          * 2 ^ (MaxTime + 1 - (now - contexts[toRemove.chatId][k].timestamp))

\* C10: every stored context's semanticHash is the store's hash of its own
\* stored content.
HashOfStoredContent ==
    \A chatId \in Chats :
        \A k \in 1..Len(contexts[chatId]) :
            contexts[chatId][k].semanticHash = SemanticHashes[contexts[chatId][k].content]

(***************************************************************************)
(* Properties of the Deduplicator.                                         *)
(***************************************************************************)
\* the check returned after its exact tier found no match in a non-empty pool
PastExactTier ==
    /\ check.pc = "returned"
    /\ Len(check.existingContexts) > 0
    /\ ~check.exactMatch.isDuplicate

\* the similarities of the new content's embedding to the pool's embeddings
PoolSimilarities ==
    {calculateCosineSimilarity(embedQuery(Normalized[check.newContent]),
                               check.existingContexts[k].embedding) :
       k \in 1..Len(check.existingContexts)}

\* C7: when neither the exact nor the semantic-hash tier matches in a non-empty
\* pool, a highest embedding similarity of at least 0.85 makes checkDuplication
\* return a duplicate of tier "semantic", and one below 0.75 makes it return
\* isDuplicate = false.
ThresholdsDecide ==
    (PastExactTier /\ ~check.semanticMatch.isDuplicate) =>
        /\ (\E x \in PoolSimilarities : SimAtLeast(x, <<17, 20>>)) =>
               check.result.isDuplicate /\ check.result.duplicateType = "semantic"
        /\ (\A x \in PoolSimilarities : ~SimAtLeast(x, <<3, 4>>)) =>
               ~check.result.isDuplicate

\* the check returned on a paraphrase-tier embedding match: the highest
\* similarity is in [0.75, 0.85) and the content has at most 500 characters
ParaphraseTier ==
    /\ check.pc = "returned"
    /\ SimAtLeast(check.embeddingMatch.similarity, <<3, 4>>)
    /\ ~SimAtLeast(check.embeddingMatch.similarity, <<17, 20>>)
    /\ Len(check.newContent) <= 500

\* C8, as stated: on a paraphrase-tier match checkDuplication reports a
\* duplicate only if the collaborator answered the literal DUPLICATE; any other
\* answer and a failed call give isDuplicate = false with tier none.
LiteralDuplicateOnly ==
    ParaphraseTier =>
        /\ check.result.isDuplicate =>
               check.validation = "answered" /\ check.response = AnsDuplicate
        /\ (\/ check.validation = "failed"
            \/ check.validation = "answered" /\ check.response # AnsDuplicate) =>
               ~check.result.isDuplicate /\ check.result.duplicateType = "none"

\* C8, amended: on a paraphrase-tier match checkDuplication reports a duplicate
\* (of tier paraphrase) exactly when the collaborator's answer, trimmed and
\* upper-cased, is DUPLICATE, or when no call is made because that verdict is
\* cached for the two texts; every other answer, a cached verdict to the
\* contrary and a failed call give isDuplicate = false with tier none; and a
\* check that waits for the collaborator returns, whatever the call does.
AdjudicationDecides ==
    /\ [](ParaphraseTier =>
            /\ check.validation \in {"answered", "cached", "failed"}
            /\ check.result.isDuplicate <=>
                   \/ /\ check.validation = "answered"
                      /\ toUpperCase(trim(check.response)) = AnsDuplicate
                   \/ /\ check.validation = "cached"
                      /\ \E k \in 1..Len(llmValidationCache) :
                            /\ llmValidationCache[k].key = ValidationKey(check)
                            /\ llmValidationCache[k].value
            /\ check.result.duplicateType =
                   IF check.result.isDuplicate THEN "paraphrase" ELSE "none")
    /\ [][check.pc = "queryLLM" => check'.pc = "returned"]_vars

\* a paraphrase-tier match that the answer " duplicate\n" made a duplicate
AdjudicationDecidesWitness ==
    /\ ParaphraseTier
    /\ check.validation = "answered"
    /\ check.response = AnsLower
    /\ check.result.isDuplicate

\* C9: when the exact tier does not match and the new content has the key-word
\* fingerprint of the content of some context of the pool, checkDuplication
\* returns a duplicate of tier semantic with similarity 0.90 and confidence 0.9.
FingerprintMatchIsSemantic ==
    (/\ PastExactTier
     /\ \E k \in 1..Len(check.existingContexts) :
           KeyWordHashes[check.newContent] =
               KeyWordHashes[check.existingContexts[k].content]) =>
        /\ check.result.isDuplicate
        /\ check.result.duplicateType = "semantic"
        /\ check.result.similarity = SimHash
        /\ check.result.confidence = 90

(***************************************************************************)
(* Properties of the EmbeddingsClient.                                     *)
(***************************************************************************)
\* lines 70 and 129: how many entries the step of a call sets
EntriesSet(i) ==
    IF embedCalls[i].pc = "embedQuery" THEN 1 ELSE Len(embedCalls[i].uncachedIndices)

\* A step that changes the cache drops the j entries inserted earliest, for some
\* j, keeps all the others in their order and puts the new keys behind them; it
\* drops at least one entry if the cache was full, it drops no more entries
\* than it sets, and it drops one only from a full cache.
FifoStep ==
    embeddingCache' # embeddingCache =>
        \E i \in EmbedCallIds, j \in 0..MaxBatch :
            LET kept == Len(embeddingCache) - j
            IN  /\ embedCalls'[i] # embedCalls[i]
                /\ j <= EntriesSet(i)
                /\ kept >= 0
                /\ Len(embeddingCache') >= kept
                /\ Len(embeddingCache') - kept <= EntriesSet(i)
                /\ \A k \in 1..kept : embeddingCache'[k].key = embeddingCache[j + k].key
                /\ \A k \in (kept + 1)..Len(embeddingCache') :
                       \A m \in 1..(k - 1) : embeddingCache'[k].key # embeddingCache'[m].key
                /\ Len(embeddingCache) >= maxCacheSize => j >= 1
                /\ j >= 1 => Len(embeddingCache') >= maxCacheSize - 1

\* C11: after any sequence of generateEmbedding and generateBatchEmbeddings
\* calls the embedding cache holds at most maxCacheSize entries, and an insert
\* into a full cache evicts the entry inserted earliest, whichever entries
\* were read since.
EmbeddingCacheIsFifo ==
    /\ [](Len(embeddingCache) <= maxCacheSize)
    /\ [][FifoStep]_vars

\* the cache is full, and an entry that a call was answered from is gone
HitEntryEvicted ==
    /\ Len(embeddingCache) = maxCacheSize
    /\ \E i \in EmbedCallIds :
           /\ embedCalls[i].pc = "returned"
           /\ embedCalls[i].attempts = 0
           /\ Len(embedCalls[i].texts) = 1
           /\ ~CacheHas(embeddingCache, CacheKeys[embedCalls[i].texts[1]])

\* the positions of an addContext call in which no generateEmbedding of the call
\* has failed yet and one may still fail
EmbeddingStage == {"embedQuery", "isDuplicate", "updateExistingContext", "updateEmbedQuery"}

\* C12: when the embedding service fails, generateEmbedding throws after one
\* request to the service and leaves the embedding cache as it was; no step of
\* the addContext call up to and including that failure changes the contexts
\* or the hash index.
EmbeddingFailureFrame ==
    [][\A i \in CallIds :
          /\ (calls'[i] # calls[i] /\ calls'[i].pc \in EmbeddingStage)
                 => (contexts' = contexts /\ seenHashes' = seenHashes)
          /\ (calls'[i] # calls[i] /\ calls'[i].outcome = "embedding_failed")
                 => /\ calls[i].pc \in {"embedQuery", "updateEmbedQuery"}
                    /\ calls'[i].pc = "failed"
                    /\ calls'[i].attempts = 1
                    /\ embeddingCache' = embeddingCache
                    /\ contexts' = contexts
                    /\ seenHashes' = seenHashes]_vars

\* an addContext to a chat that holds contexts was rejected because the
\* embedding service failed
EmbeddingFailureWitness ==
    \E i \in CallIds :
        /\ calls[i].pc = "failed"
        /\ calls[i].outcome = "embedding_failed"
        /\ calls[i].attempts = 1
        /\ Len(contexts[calls[i].chatId]) > 0

(***************************************************************************)
(* Properties of the Deduplicator's caches.                                *)
(***************************************************************************)
DeduplicationCaches == <<exactMatchCache, semanticHashCache, llmValidationCache>>

\* A cache that changes from old to new: a full one loses the fifth of its
\* entries inserted first and keeps all the others in their order, one that
\* is not full keeps all; at most one key is put behind them.
EvictsOldestFifth(old, new) ==
    old # new =>
        LET evicted == IF Len(old) >= deduplicatorMaxCacheSize THEN Len(old) \div 5 ELSE 0
            kept == Len(old) - evicted
        IN  /\ Len(new) \in {kept, kept + 1}
            /\ \A k \in 1..kept : new[k].key = old[evicted + k].key
            /\ \A k \in (kept + 1)..Len(new) :
                   \A m \in 1..kept : new[k].key # new[m].key

\* C13: after any sequence of checkDuplication calls each of the three caches
\* holds at most 2000 entries, and an insert that finds a cache full evicts
\* the oldest 20% of its entries by insertion order and keeps the newer 80%.
DedupCachesBounded ==
    /\ [](\A n \in 1..3 : Len(DeduplicationCaches[n]) <= deduplicatorMaxCacheSize)
    /\ [][\A n \in 1..3 : EvictsOldestFifth(DeduplicationCaches[n],
                                            DeduplicationCaches'[n])]_vars

\* an insert found a cache full: the cache holds the newer 80% and the new entry
FifthEvicted ==
    \E n \in 1..3 :
        Len(DeduplicationCaches[n]) =
            deduplicatorMaxCacheSize - (deduplicatorMaxCacheSize \div 5) + 1

(***************************************************************************)
(* Properties of getRelevantContext.                                       *)
(***************************************************************************)
\* what the store holds for a chat
StoredFor(chatId) == IF chatId \in Chats THEN contexts[chatId] ELSE <<>>

\* the context meets the criteria the filter gives
MeetsCriteria(context, filter, time) ==
    /\ filter.maxAge # <<>> => time - context.timestamp <= filter.maxAge[1]
    /\ filter.minConfidence # <<>> => context.confidence >= filter.minConfidence[1]
    /\ filter.contextTypes # <<>> => context.contextType \in filter.contextTypes[1]
    /\ filter.metadata # <<>>
           => \A key \in DOMAIN filter.metadata[1] :
                  /\ key \in DOMAIN context.metadata
                  /\ context.metadata[key] = filter.metadata[1][key]

\* C14: getRelevantContext returns at most topK contexts, all of the chat and
\* all satisfying the filter criteria, by non-increasing relevanceScore, and
\* no filter-passing context of the chat that is left out scores higher than
\* the lowest one returned.
RetrievalSatisfiesFilter ==
    retrieval.pc = "returned" =>
        LET result == retrieval.result
            stored == StoredFor(retrieval.chatId)
            returned == {result[i].id : i \in 1..Len(result)}
            met(context) == MeetsCriteria(context, retrieval.filter, retrieval.time)
        IN  /\ Len(result) <= retrieval.topK
            /\ Cardinality(returned) = Len(result)
            /\ \A i \in 1..Len(result) :
                   \E k \in 1..Len(stored) :
                       result[i] = Spread(stored[k],
                                          [relevanceScore |-> result[i].relevanceScore])
            /\ \A i \in 1..Len(result) : met(result[i])
            /\ \A i \in 1..Len(result) : \A j \in i..Len(result) :
                   result[i].relevanceScore >= result[j].relevanceScore
            /\ \A k \in 1..Len(stored) :
                   (met(stored[k]) /\ stored[k].id \notin returned /\ Len(result) > 0)
                       => relevanceScore(stored[k], retrieval.queryEmbedding,
                                         retrieval.ranking, retrieval.time)
                              <= result[Len(result)].relevanceScore

\* C15: getRelevantContext leaves every chat's stored contexts and the hash
\* index as they are, and no stored context carries a relevanceScore.
RetrievalReadOnly ==
    /\ [][retrieval' # retrieval
              => (contexts' = contexts /\ seenHashes' = seenHashes
                  /\ contentEmbeddings' = contentEmbeddings)]_vars
    /\ [](\A chatId \in Chats : \A k \in 1..Len(contexts[chatId]) :
              "relevanceScore" \notin DOMAIN contexts[chatId][k])

\* a call returned contexts that carry their relevanceScore
ScoredResultWitness ==
    /\ retrieval.pc = "returned"
    /\ Len(retrieval.result) > 0
    /\ \A i \in 1..Len(retrieval.result) :
           "relevanceScore" \in DOMAIN retrieval.result[i]

\* the ids of the contexts of a list
Ids(list) == {list[i].id : i \in 1..Len(list)}

\* the contexts, with the k-th at a confidence above its own
Raised(list, k, confidence) == [list EXCEPT ![k].confidence = confidence]

\* the store's run of the returned call, with the k-th stored context raised
RaisedRetrieval(k, confidence) ==
    relevantContexts(Raised(StoredFor(retrieval.chatId), k, confidence),
                     retrieval.queryEmbedding, retrieval.filter, retrieval.ranking,
                     retrieval.topK, retrieval.time)

\* the ranker's run of the returned call, with the k-th context given raised
RaisedRanking(k, confidence) ==
    filterAndRank([rankCall EXCEPT !.pc = "idle",
                                   !.contexts = Raised(@, k, confidence)],
                  rankCall.time)

\* the relevanceScore the list gives the context of this id
ScoreOf(list, id) == list[CHOOSE i \in 1..Len(list) : list[i].id = id].relevanceScore

\* C16: between two runs that differ in one context's confidence only, the
\* relevanceScore of that context is not lower in the run where its confidence
\* is higher, and a context the lower run includes the higher run includes,
\* for getRelevantContext and for filterAndRank.
ConfidenceMonotone ==
    /\ (retrieval.pc = "returned" /\ Len(retrieval.result) > 0) =>
           \A k \in 1..Len(StoredFor(retrieval.chatId)) :
               \A confidence \in (StoredFor(retrieval.chatId)[k].confidence + 1)..10 :
                   LET context == StoredFor(retrieval.chatId)[k]
                       higher == RaisedRetrieval(k, confidence)
                   IN  /\ relevanceScore(Raised(StoredFor(retrieval.chatId), k,
                                                confidence)[k],
                                         retrieval.queryEmbedding, retrieval.ranking,
                                         retrieval.time)
                              >= relevanceScore(context, retrieval.queryEmbedding,
                                                retrieval.ranking, retrieval.time)
                       /\ context.id \in Ids(retrieval.result) =>
                              /\ context.id \in Ids(higher)
                              /\ ScoreOf(higher, context.id)
                                     >= ScoreOf(retrieval.result, context.id)
    /\ (rankCall.pc = "returned" /\ rankCall.operation = "filterAndRank") =>
           \A k \in 1..Len(rankCall.contexts) :
               \A confidence \in (rankCall.contexts[k].confidence + 1)..10 :
                   LET id == rankCall.contexts[k].id
                       higher == RaisedRanking(k, confidence)
                   IN  /\ id \in Ids(rankCall.scoredContexts) =>
                              /\ id \in Ids(higher.scoredContexts)
                              /\ ScoreOf(higher.scoredContexts, id)
                                     >= ScoreOf(rankCall.scoredContexts, id)
                       /\ id \in Ids(rankCall.result) => id \in Ids(higher.result)

\* filterAndRank with a predefined strategy left out a context that it takes
\* in at a higher confidence, and took one in that scores more at a higher
\* confidence; getRelevantContext had returned contexts by weights that count
\* the confidence
ConfidenceRaisesWitness ==
    /\ retrieval.pc = "returned" /\ Len(retrieval.result) > 0
    /\ retrieval.ranking.confidenceWeight # <<0>>
    /\ rankCall.pc = "returned" /\ rankCall.operation = "filterAndRank"
    /\ rankCall.strategy.preset # <<>>
    /\ \E k \in 1..Len(rankCall.contexts) :
           /\ rankCall.contexts[k].id \notin Ids(rankCall.result)
           /\ rankCall.contexts[k].id \in Ids(RaisedRanking(k, 10).result)
    /\ \E k \in 1..Len(rankCall.contexts) :
           /\ rankCall.contexts[k].id \in Ids(rankCall.result)
           /\ rankCall.contexts[k].confidence < 10
           /\ ScoreOf(RaisedRanking(k, 10).result, rankCall.contexts[k].id)
                  > ScoreOf(rankCall.result, rankCall.contexts[k].id)

\* what the rule of this index says of the context in the returned call
RuleResult(context, n) ==
    evaluateRule(context, rankCall.queryEmbedding,
                 rankingStrategy(rankCall.strategy).rules[n],
                 rankCall.filteredContexts, rankCall.time)

\* the contributions of the rules the context passes
PassedContributions(context) ==
    LET rules == rankingStrategy(rankCall.strategy).rules
        sum[n \in 0..Len(rules)] ==
            IF n = 0 THEN 0
            ELSE sum[n - 1] + (IF RuleResult(context, n).passes
                               THEN RuleResult(context, n).score * rules[n].weight
                               ELSE 0)
    IN  sum[Len(rules)]

\* the rules the context fails
FailedRules(context) ==
    {n \in 1..Len(rankingStrategy(rankCall.strategy).rules) :
        ~RuleResult(context, n).passes}

\* C17: filterAndRank leaves a candidate out of the scored set if and only if
\* it fails a rule of weight above 0.3; a failed rule of weight 0.3 or less
\* only keeps its contribution from the candidate's relevanceScore.
ExcludedIffHardRuleFails ==
    (rankCall.pc = "returned" /\ rankCall.operation = "filterAndRank") =>
        \A k \in 1..Len(rankCall.filteredContexts) :
            LET context == rankCall.filteredContexts[k]
                rules == rankingStrategy(rankCall.strategy).rules
            IN  /\ context.id \notin Ids(rankCall.scoredContexts)
                       <=> \E n \in FailedRules(context) : rules[n].weight > 30
                /\ context.id \in Ids(rankCall.scoredContexts)
                       => ScoreOf(rankCall.scoredContexts, context.id)
                              = PassedContributions(context)

\* of the candidates of one call, one that failed a rule of weight 0.3 was
\* scored and one that failed a rule of more weight was left out
SoftAndHardFailureWitness ==
    /\ rankCall.pc = "returned" /\ rankCall.operation = "filterAndRank"
    /\ \E k \in 1..Len(rankCall.filteredContexts) :
           /\ \E n \in FailedRules(rankCall.filteredContexts[k]) :
                  rankingStrategy(rankCall.strategy).rules[n].weight = 30
           /\ rankCall.filteredContexts[k].id \in Ids(rankCall.scoredContexts)
    /\ \E k \in 1..Len(rankCall.filteredContexts) :
           /\ FailedRules(rankCall.filteredContexts[k]) # {}
           /\ rankCall.filteredContexts[k].id \notin Ids(rankCall.scoredContexts)

\* where the context of this id stands in the list
PositionIn(list, id) == CHOOSE i \in 1..Len(list) : list[i].id = id

\* the similarity of two contexts is above the limit of the returned call
AboveLimit(a, b) ==
    SimAbove(calculateCosineSimilarity(a.embedding, b.embedding), rankCall.maxSimilarity)

\* C18: of the contexts diversityFilter returns, no two are more similar than
\* maxSimilarity; they are contexts of the input in the order of the input;
\* and every context of the input that is not returned is more similar than
\* maxSimilarity to a returned context that stands before it in the input.
DiversityFilterIsGreedy ==
    (rankCall.pc = "returned" /\ rankCall.operation = "diversityFilter") =>
        LET input == rankCall.contexts
            result == rankCall.result
        IN  /\ \A i \in 1..Len(result) : \A j \in 1..Len(result) :
                   i # j => ~AboveLimit(result[i], result[j])
            /\ Cardinality(Ids(result)) = Len(result)
            /\ \A i \in 1..Len(result) :
                   /\ result[i].id \in Ids(input)
                   /\ result[i] = input[PositionIn(input, result[i].id)]
            /\ \A i \in 1..Len(result) : \A j \in 1..Len(result) :
                   i < j => PositionIn(input, result[i].id)
                                < PositionIn(input, result[j].id)
            /\ \A k \in 1..Len(input) :
                   input[k].id \notin Ids(result)
                       => \E m \in 1..(k - 1) :
                              /\ input[m].id \in Ids(result)
                              /\ AboveLimit(input[k], input[m])

\* diversityFilter left a context out and returned contexts that stand before
\* it and after it in the input
DiversityWitness ==
    /\ rankCall.pc = "returned" /\ rankCall.operation = "diversityFilter"
    /\ Len(rankCall.result) >= 2
    /\ \E k \in 2..(Len(rankCall.contexts) - 1) :
           /\ rankCall.contexts[k].id \notin Ids(rankCall.result)
           /\ rankCall.contexts[Len(rankCall.contexts)].id \in Ids(rankCall.result)

(***************************************************************************)
(* Properties of the MemoryManager.                                        *)
(***************************************************************************)
\* the request found the memory or the contexts at 90% of their limit or more
LimitReached ==
    \/ memory.memoryUsage * 10 >= 9 * memory.config.maxTotalMemoryMB * 1024
    \/ storage.totalContexts * 100 >= 90 * memory.config.maxTotalContexts

\* where the request pushed its context, among what it did
AppendedAt == CHOOSE i \in 1..Len(storage.did) : storage.did[i] = "append"

\* the list holds elements of the stages, each once at most, in their order
InOrderOf(list, stages) ==
    \E at \in [1..Len(list) -> 1..Len(stages)] :
        /\ \A i \in 1..Len(list) : list[i] = stages[at[i]]
        /\ \A i \in 1..Len(list) : \A j \in 1..Len(list) : i < j => at[i] < at[j]

ActiveIds(chatId) ==
    IF CacheHas(managed, chatId) THEN Ids(CacheGet(managed, chatId)) ELSE {}

\* the ids of the contexts the archive holds for the chat
ArchivedIds(chatId) ==
    IF CacheHas(memory.archivedContexts, chatId)
    THEN {CacheGet(memory.archivedContexts, chatId)[i].contextId :
             i \in 1..Len(CacheGet(memory.archivedContexts, chatId))}
    ELSE {}

\* the ids of the oldest 30% of the contexts, rounded down
OldestIds(chatContexts) ==
    {chatContexts[k].id : k \in
        {k \in 1..Len(chatContexts) :
            Cardinality({m \in 1..Len(chatContexts) :
                \/ chatContexts[m].timestamp < chatContexts[k].timestamp
                \/ /\ chatContexts[m].timestamp = chatContexts[k].timestamp
                   /\ m < k}) < (Len(chatContexts) * 3) \div 10}}

\* C20: when the chat of the request holds more than 80% of maxContextsPerChat
\* at the archival stage and archival is enabled, the oldest 30% of its
\* contexts are in the archive afterwards and not among the chat's contexts;
\* no chat holds a context that its archive holds.
ArchivalMovesOldest ==
    /\ (/\ storage.pc \in {"archivalDone", "trimmed", "returned"}
        /\ memory.config.archivalEnabled
        /\ Len(storage.chatContexts) * 10 > memory.config.maxContextsPerChat * 8)
           => /\ OldestIds(storage.chatContexts) \subseteq ArchivedIds(storage.chatId)
              /\ OldestIds(storage.chatContexts) \cap ActiveIds(storage.chatId) = {}
    /\ \A chatId \in MemoryChats : ArchivedIds(chatId) \cap ActiveIds(chatId) = {}


\* C21: with archival enabled, every context that a step of the MemoryManager
\* takes out of a chat's contexts (the age cleanup, the cut of the chats
\* accessed longest ago, the per-chat trim) is, after the step, among what
\* retrieveContexts(chatId, contexts, true) returns.
RemovedAreRetrievable ==
    [][memory.config.archivalEnabled =>
           \A chatId \in MemoryChats :
               \A id \in ActiveIds(chatId) \ ActiveIds(chatId)' :
                   id \in Ids(retrieveContexts(chatId, managed', memory', TRUE))]_vars


\* the contexts the chat of the request held before the trim and does not
\* hold after it
Dropped ==
    {storage.chatContexts[k] : k \in
        {k \in 1..Len(storage.chatContexts) :
            storage.chatContexts[k].id \notin ActiveIds(storage.chatId)}}

\* C22: when manageContextStorage(chatId, ...) has returned stored = true, the
\* chat holds at most maxContextsPerChat contexts, and no context the trim
\* dropped has a higher relevanceScore * 0.7 + confidence * 0.3 than a
\* context it kept.
TrimKeepsBestWithinCap ==
    (storage.pc = "returned" /\ storage.result.stored) =>
        /\ Len(CacheGet(managed, storage.chatId)) <= memory.config.maxContextsPerChat
        /\ \A dropped \in Dropped :
               \A k \in 1..Len(CacheGet(managed, storage.chatId)) :
                   trimScore(dropped) <= trimScore(CacheGet(managed, storage.chatId)[k])

\* a request returned after a trim that kept a context of lower confidence
\* for its relevanceScore and dropped one of higher confidence that has none
TrimWitness ==
    /\ storage.pc = "returned" /\ storage.result.stored
    /\ Len(storage.chatContexts) > memory.config.maxContextsPerChat
    /\ Len(CacheGet(managed, storage.chatId)) = memory.config.maxContextsPerChat
    /\ \E dropped \in Dropped :
           \E k \in 1..Len(CacheGet(managed, storage.chatId)) :
               /\ CacheGet(managed, storage.chatId)[k].relevanceScore # <<>>
               /\ CacheGet(managed, storage.chatId)[k].confidence < dropped.confidence
               /\ trimScore(dropped) < trimScore(CacheGet(managed, storage.chatId)[k])


\* C23: a performCleanup pass that removes at least one expired context leaves
\* the total memory of the contexts, as getMemoryStats reports it, strictly
\* lower than it was before the pass, and returns a memoryFreedMB above 0.
CleanupFreesMemory ==
    [][(/\ storage.pc = "checked" /\ storage'.pc = "cleaned"
        /\ storage'.cleanup.contextsRemoved >= 1)
           => /\ updateMemoryUsage(managed') < updateMemoryUsage(managed)
              /\ storage'.cleanup.memoryFreedMB > 0]_vars


\* C24: manageContextStorage returns stored = false only when performCleanup
\* ran in the call and the limits are still reached after it; when it returns
\* stored = true, the contexts of all chats together are at most
\* maxTotalContexts.
StoredWithinTotalContexts ==
    storage.pc = "returned" =>
        /\ ~storage.result.stored =>
               /\ storage.cleanup # <<>>
               /\ ~canStore(memory.config, updateMemoryUsage(managed),
                            totalContextsOf(managed))
        /\ storage.result.stored =>
               totalContextsOf(managed) <= memory.config.maxTotalContexts


\* a chat holds a context that is as old as maxContextAgeDays or older
HoldsExpired ==
    \E k \in 1..Len(managed) : \E c \in 1..Len(managed[k].value) :
        (now - managed[k].value[c].timestamp) * 3119
            >= memory.config.maxContextAgeDays * 144000

\* C28: while the cleanup timer of the MemoryManager is set, contexts as old
\* as maxContextAgeDays do not stay in the chats for ever, whether requests
\* arrive or not; once shutdown() has cleared the timer it stays cleared and
\* its callback cannot run.
TimerRemovesExpired ==
    /\ (HoldsExpired /\ memory.cleanupInterval)
            ~> (~HoldsExpired \/ ~memory.cleanupInterval)
    /\ [](~memory.cleanupInterval => ~ENABLED PeriodicCleanupFires)
    /\ [][~memory.cleanupInterval => ~memory'.cleanupInterval]_vars


\* the contents that have fewer than 10 characters once they are cleaned:
\* "Paris" and "Paris 123"
TooShortContents == {ParisSymbols, ParisNine}

\* C30: an addContext call whose content is shorter than 10 characters once
\* cleaned returns at once: the step that makes the call leaves the chats'
\* contexts, the hash index, the embedding index and the embedding cache as
\* they are, and the call never waits for the embedding service or the
\* text-generation service.
ShortAddIsNoOp ==
    /\ [](\A i \in CallIds :
              (calls[i].pc # "idle" /\ calls[i].content \in TooShortContents) =>
                  /\ calls[i].pc = "returned"
                  /\ calls[i].outcome = "too_short"
                  /\ calls[i].attempts = 0)
    /\ [][\A i \in CallIds :
              (/\ calls[i].pc = "idle" /\ calls'[i].pc # "idle"
               /\ calls'[i].content \in TooShortContents)
                  => UNCHANGED <<contexts, seenHashes, contentEmbeddings,
                                 embeddingCache>>]_vars

\* a content of 20 characters that is 5 characters long once cleaned was
\* rejected after an earlier call had stored its content; of the other brief
\* contents one has 9 characters once cleaned and one has 10
ShortAddWitness ==
    /\ calls[1].outcome = "stored"
    /\ calls[2].content = ParisSymbols
    /\ Len(calls[2].cleanedContent) = 5
    /\ calls[2].pc = "returned" /\ calls[2].outcome = "too_short"
    /\ Len(Cleaned[ParisNine]) = 9
    /\ Len(Cleaned[ParisTen]) = 10


\* the step is a clearContext(chatId) after which the chat holds no context
\* and neither index holds an entry of a context the chat held
ClearLeavesNothing(chatId) ==
    ClearContext(chatId) =>
        /\ contexts'[chatId] = <<>>
        /\ \A x \in Range(contexts[chatId]) :
               /\ x.semanticHash \notin seenHashes'
               /\ \A e \in contentEmbeddings' : e[1] # x.id

\* in this step call j returns; it was made with the chat and the content of
\* the earlier call i, which stored a context, on a chat that had been
\* emptied since
ReturnsFromReadding(i, j) ==
    /\ i < j
    /\ calls[i].pc = "returned" /\ calls[i].outcome = "stored"
    /\ calls[j].pc # "returned" /\ calls'[j].pc = "returned"
    /\ calls'[j].chatId = calls[i].chatId
    /\ calls'[j].content = calls[i].content
    /\ calls'[j].countBefore = 0

DocOne == <<100, 49>>   \* "d1"
DocTwo == <<100, 50>>   \* "d2"

\* two texts of 73 characters with the same first 50
SentenceOne == Sentence \o <<49>>
SentenceTwo == Sentence \o <<50>>

\* a Document: pageContent, and metadata whose id is <<>> if it has none
NewDocument(pageContent, id) == [pageContent |-> pageContent, metadata |-> [id |-> id]]

\* the documents a caller adds
InputDocuments ==
    {NewDocument(ParisA, <<DocOne>>), NewDocument(Berlin, <<DocTwo>>),
     NewDocument(SentenceOne, <<>>), NewDocument(SentenceTwo, <<>>)}

InputTexts == {input.pageContent : input \in InputDocuments}

HybridChats == {"A"}

HybridQueries == {"capital"}

HybridTopKs == {1, 2}

RagConfigs ==
    {defaultRagConfig,
     [hybrid |-> [vectorWeight |-> 5, bm25Weight |-> 5, rerankTopK |-> <<>>]]}

ScoreTable(paris, berlin, one, two) ==
    [text \in InputTexts |->
        CASE text = ParisA -> paris
          [] text = Berlin -> berlin
          [] text = SentenceOne -> one
          [] OTHER -> two]

\* what similaritySearchWithScore and BM25 score a text with for a query, in
\* hundredths
SearchTables ==
    {[vector |-> ScoreTable(90, 50, 40, 30), bm25 |-> ScoreTable(0, 500, 400, 300)],
     [vector |-> ScoreTable(50, 90, 70, 70), bm25 |-> ScoreTable(200, 200, 0, 100)],
     [vector |-> ScoreTable(20, 40, 80, 60), bm25 |-> ScoreTable(300, 0, 0, 0)]}

\* what the rerank service scores a text with, in thousandths
RerankTables ==
    {ScoreTable(900, 100, 500, 500), ScoreTable(0, 700, 0, 300)}

\* lines 331-333 and 775-777
getDocumentId(document) ==
    IF document.metadata.id # <<>> THEN document.metadata.id[1]
    ELSE substring(document.pageContent, 50)

\* lines 63-80 and 545-562: the text splitter gives one chunk for a text
\* below chunkSize
enrichedChunks(input) ==
    <<[pageContent |-> input.pageContent,
       metadata |-> [id |-> input.metadata.id, chunkIndex |-> 0, totalChunks |-> 1,
                     originalLength |-> Len(input.pageContent)]]>>

documentsOf(map, chatId) == IF CacheHas(map, chatId) THEN CacheGet(map, chatId) ELSE <<>>

MapDelete(map, key) ==
    LET kept == {k \in 1..Len(map) : map[k].key # key}
    IN  [j \in 1..Cardinality(kept) |->
            map[CHOOSE k \in kept : Cardinality({m \in kept : m < k}) = j - 1]]

\* Array.sort((a, b) => b.score - a.score)
sortByScore(results) ==
    SortedBy(results, [k \in 1..Len(results) |-> 0 - results[k].score])

\* lines 193-217 and 674-691: the topK nearest documents of the chat
vectorSearch(store, table, topK) ==
    slice(sortByScore([k \in 1..Len(store) |->
                          [document |-> store[k], score |-> table[store[k].pageContent]]]),
          topK)

\* lines 219-253 and 693-727
bm25Search(documents, table, topK) ==
    slice(sortByScore([k \in 1..Len(documents) |->
                          [document |-> documents[k],
                           score |-> table[documents[k].pageContent]]]),
          topK)

\* lines 151-159 and 633-641
RECURSIVE setVectorResults(_, _)
setVectorResults(combinedResults, vectorResults) ==
    IF vectorResults = <<>> THEN combinedResults
    ELSE setVectorResults(
             MapSet(combinedResults, getDocumentId(Head(vectorResults).document),
                    [document |-> Head(vectorResults).document,
                     vectorScore |-> Head(vectorResults).score,
                     bm25Score |-> 0, combinedScore |-> 0]),
             Tail(vectorResults))

\* lines 161-174 and 643-656
RECURSIVE setBM25Results(_, _)
setBM25Results(combinedResults, bm25Results) ==
    IF bm25Results = <<>> THEN combinedResults
    ELSE LET docId == getDocumentId(Head(bm25Results).document)
         IN  setBM25Results(
                 IF CacheHas(combinedResults, docId)
                 THEN MapSet(combinedResults, docId,
                             [CacheGet(combinedResults, docId) EXCEPT
                                 !.bm25Score = Head(bm25Results).score])
                 ELSE MapSet(combinedResults, docId,
                             [document |-> Head(bm25Results).document,
                              vectorScore |-> 0,
                              bm25Score |-> Head(bm25Results).score,
                              combinedScore |-> 0]),
                 Tail(bm25Results))

\* a fusion that takes the larger of the two weighted scores
combinedScoreOfLarger(result, config) ==
    IF result.vectorScore * config.hybrid.vectorWeight
           > result.bm25Score * config.hybrid.bm25Weight
    THEN result.vectorScore * config.hybrid.vectorWeight
    ELSE result.bm25Score * config.hybrid.bm25Weight

\* lines 180-182 and 662-664
combinedScoreOf(result, config) ==
    result.vectorScore * config.hybrid.vectorWeight
        + result.bm25Score * config.hybrid.bm25Weight

\* Array.sort((a, b) => b.combinedScore - a.combinedScore)
sortByCombinedScore(results) ==
    SortedBy(results, [k \in 1..Len(results) |-> 0 - results[k].combinedScore])

\* lines 188-190 and 670-672: rerankTopK ?? topK * 2
rerankTopKOf(config, topK) ==
    IF config.hybrid.rerankTopK # <<>> THEN config.hybrid.rerankTopK[1] ELSE topK * 2

\* lines 132-191 and 614-672, from the results of the two searches on
unionOfResults(vectorResults, bm25Results, config) ==
    LET combinedResults == setBM25Results(setVectorResults(<<>>, vectorResults),
                                          bm25Results)
    IN  [k \in 1..Len(combinedResults) |->
            [combinedResults[k].value EXCEPT
                !.combinedScore = combinedScoreOf(combinedResults[k].value, config)]]

performHybridSearch(vectorResults, bm25Results, config, topK) ==
    slice(sortByCombinedScore(unionOfResults(vectorResults, bm25Results, config)),
          rerankTopKOf(config, topK))

\* lines 291-311: scores is <<>> if the response holds none
rerankedResults(hybridResults, scores, topK) ==
    LET scored == [k \in 1..Len(hybridResults) |->
                      [document |-> hybridResults[k].document,
                       vectorScore |-> hybridResults[k].vectorScore,
                       bm25Score |-> hybridResults[k].bm25Score,
                       combinedScore |-> hybridResults[k].combinedScore,
                       rerankScore |-> IF k \in DOMAIN scores THEN scores[k] ELSE 0]]
        sorted == slice(SortedBy(scored, [k \in 1..Len(scored) |->
                                             0 - scored[k].rerankScore]),
                        topK)
    IN  [k \in 1..Len(sorted) |->
            [document |-> sorted[k].document,
             score |-> IF sorted[k].rerankScore # 0 THEN sorted[k].rerankScore
                       ELSE sorted[k].combinedScore,
             retriever |-> "hybrid",
             metadata |-> [rank |-> k, vectorScore |-> sorted[k].vectorScore,
                           bm25Score |-> sorted[k].bm25Score,
                           combinedScore |-> sorted[k].combinedScore,
                           rerankScore |-> sorted[k].rerankScore]]]

\* a catch that returns every candidate it was handed
fallbackResultsAll(hybridResults, topK) ==
    LET sorted == sortByCombinedScore(hybridResults)
    IN  [k \in 1..Len(sorted) |->
            [document |-> sorted[k].document,
             score |-> sorted[k].combinedScore,
             retriever |-> "hybrid",
             metadata |-> [rank |-> k, vectorScore |-> sorted[k].vectorScore,
                           bm25Score |-> sorted[k].bm25Score,
                           combinedScore |-> sorted[k].combinedScore]]]

\* lines 312-328: the catch of rerankWithColBERT
fallbackResults(hybridResults, topK) ==
    LET sorted == slice(sortByCombinedScore(hybridResults), topK)
    IN  [k \in 1..Len(sorted) |->
            [document |-> sorted[k].document,
             score |-> sorted[k].combinedScore,
             retriever |-> "hybrid",
             metadata |-> [rank |-> k, vectorScore |-> sorted[k].vectorScore,
                           bm25Score |-> sorted[k].bm25Score,
                           combinedScore |-> sorted[k].combinedScore]]]

LessFraction(a, b) == a.num * b.den < b.num * a.den

SameFraction(a, b) == a.num * b.den = b.num * a.den

AddFractions(a, b) == [num |-> a.num * b.den + b.num * a.den, den |-> a.den * b.den]

\* the place of an id in a ranking, 0 if it is not in it
RankIn(ranking, id) ==
    IF \E k \in 1..Len(ranking) : ranking[k] = id
    THEN CHOOSE k \in 1..Len(ranking) :
             ranking[k] = id /\ \A m \in 1..(k - 1) : ranking[m] # id
    ELSE 0

\* the term a ranking gives an id: 1 / (60 + rank)
ReciprocalRank(ranking, id) ==
    IF RankIn(ranking, id) = 0 THEN [num |-> 0, den |-> 1]
    ELSE [num |-> 1, den |-> 60 + RankIn(ranking, id)]

RECURSIVE SumOfReciprocalRanks(_, _)
SumOfReciprocalRanks(rankings, id) ==
    IF rankings = <<>> THEN [num |-> 0, den |-> 1]
    ELSE AddFractions(ReciprocalRank(Head(rankings), id),
                      SumOfReciprocalRanks(Tail(rankings), id))

RECURSIVE FirstOfEach(_)
FirstOfEach(ids) ==
    IF ids = <<>> THEN <<>>
    ELSE LET before == FirstOfEach(SubSeq(ids, 1, Len(ids) - 1))
         IN  IF \E k \in 1..Len(before) : before[k] = ids[Len(ids)] THEN before
             ELSE Append(before, ids[Len(ids)])

RECURSIVE Flattened(_)
Flattened(lists) ==
    IF lists = <<>> THEN <<>> ELSE Head(lists) \o Flattened(Tail(lists))

\* reciprocalRankFusion of the package "rerank" (line 744): a Map from the
\* ids of the rankings to the sum of their reciprocal-rank terms
reciprocalRankFusion(rankings) ==
    LET ids == FirstOfEach(Flattened(rankings))
    IN  [k \in 1..Len(ids) |->
            [key |-> ids[k], value |-> SumOfReciprocalRanks(rankings, ids[k])]]

\* Array.sort(([, scoreA], [, scoreB]) => scoreB - scoreA)
sortByRRFScore(entries) ==
    [j \in 1..Len(entries) |->
        entries[CHOOSE k \in 1..Len(entries) :
                   Cardinality({m \in 1..Len(entries) :
                                   \/ LessFraction(entries[k].value, entries[m].value)
                                   \/ /\ SameFraction(entries[m].value, entries[k].value)
                                      /\ m < k}) = j - 1]]

\* lines 729-773
rerankWithRRF(hybridResults, topK) ==
    LET documents == [k \in 1..Len(hybridResults) |->
                         getDocumentId(hybridResults[k].document)]
        rankedIds == reciprocalRankFusion(<<documents>>)
        resultsMap == [k \in 1..Len(hybridResults) |->
                          [key |-> getDocumentId(hybridResults[k].document),
                           value |-> hybridResults[k]]]
        sorted == slice(sortByRRFScore(rankedIds), topK)
    IN  [k \in 1..Len(sorted) |->
            [document |-> CacheGet(resultsMap, sorted[k].key).document,
             score |-> sorted[k].value,
             retriever |-> "hybrid",
             metadata |->
                 [rank |-> k,
                  vectorScore |-> CacheGet(resultsMap, sorted[k].key).vectorScore,
                  bm25Score |-> CacheGet(resultsMap, sorted[k].key).bm25Score,
                  combinedScore |-> CacheGet(resultsMap, sorted[k].key).combinedScore,
                  rrfScore |-> sorted[k].value]]]

\* what no operation of the RAGModule touches
outsideHybrid == <<storeVars, dedupVars, serviceVars, retrievalVars, memoryVars>>

SearchInFlight == search.pc \in {"vectorSearch", "rerank"}

\* the caller adds and clears until its last search has its candidates
SearchesToCome ==
    search.pc = "vectorSearch" \/ (~SearchInFlight /\ search.calls < MaxSearches)

\* lines 56-100 and 536-582, up to the call of the vector store: the chunks
\* are pushed to the documents of the chat; the second version makes the
\* FaissStore of the chat first if there is none (lines 516-525)
AddContext(chatId, input) ==
    /\ SearchesToCome
    /\ rag.adding = <<>>
    /\ rag.adds < MaxDocuments
    /\ rag' = [rag EXCEPT
                  !.chatContexts = MapSet(@, chatId,
                                          documentsOf(@, chatId) \o enrichedChunks(input)),
                  !.vectorStore = IF rag.version = "rrf" /\ ~CacheHas(@, chatId)
                                  THEN MapSet(@, chatId, <<>>) ELSE @,
                  !.adding = <<[chatId |-> chatId, documents |-> enrichedChunks(input)]>>,
                  !.adds = @ + 1]
    /\ search' = IF SearchInFlight /\ search.chatId = chatId /\ search.attached
                 THEN [search EXCEPT !.documents = @ \o enrichedChunks(input)]
                 ELSE search
    /\ UNCHANGED outsideHybrid

\* lines 95-99 and 581: the vector store has added the documents; a
\* FaissStore that clearContext has deleted meanwhile is no longer in use
AddDocumentsReturns ==
    /\ SearchesToCome
    /\ rag.adding # <<>>
    /\ rag' = [rag EXCEPT
                  !.vectorStore =
                      IF rag.version = "rrf" /\ ~CacheHas(@, rag.adding[1].chatId)
                      THEN @
                      ELSE MapSet(@, rag.adding[1].chatId,
                                  documentsOf(@, rag.adding[1].chatId)
                                      \o rag.adding[1].documents),
                  !.adding = <<>>]
    /\ UNCHANGED <<search, outsideHybrid>>

\* the vector store fails: addContext throws
AddDocumentsFails ==
    /\ SearchesToCome
    /\ rag.adding # <<>>
    /\ rag' = [rag EXCEPT !.adding = <<>>]
    /\ UNCHANGED <<search, outsideHybrid>>

\* lines 52-54 and 531-534
ClearChatContext(chatId) ==
    /\ SearchesToCome
    /\ CacheHas(rag.chatContexts, chatId)
    /\ rag' = [rag EXCEPT
                  !.chatContexts = MapDelete(@, chatId),
                  !.vectorStore = IF rag.version = "rrf" THEN MapDelete(@, chatId)
                                  ELSE @]
    /\ search' = IF search.chatId = chatId THEN [search EXCEPT !.attached = FALSE]
                 ELSE search
    /\ UNCHANGED outsideHybrid

\* lines 102-118 and 584-598
HybridGetRelevantContextCall(chatId, query, topK) ==
    /\ ~SearchInFlight
    /\ search.calls < MaxSearches
    /\ search' = [IdleSearch EXCEPT
                     !.pc = IF documentsOf(rag.chatContexts, chatId) = <<>>
                            THEN "returned" ELSE "vectorSearch",
                     !.chatId = chatId, !.query = query, !.topK = topK,
                     !.documents = documentsOf(rag.chatContexts, chatId),
                     !.calls = search.calls + 1]
    /\ UNCHANGED <<rag, outsideHybrid>>

\* lines 140-190 and 120-126 (622-672 and 600-610): the vector search
\* returns, BM25 scores the documents of the chat, the results are united and
\* cut, and are reranked by RRF or sent to the rerank service
VectorSearchReturns(vectorTable, bm25Table) ==
    /\ search.pc = "vectorSearch"
    /\ LET vectorResults == vectorSearch(documentsOf(rag.vectorStore, search.chatId),
                                         vectorTable, search.topK * 2)
           bm25Results == bm25Search(search.documents, bm25Table, search.topK * 2)
           hybridResults == performHybridSearch(vectorResults, bm25Results,
                                                rag.config, search.topK)
       IN  search' = [search EXCEPT
                         !.vectorResults = vectorResults,
                         !.bm25Results = bm25Results,
                         !.hybridResults = hybridResults,
                         !.pc = IF rag.version = "rrf" \/ hybridResults = <<>>
                                THEN "returned" ELSE "rerank",
                         !.result = IF rag.version = "rrf" /\ hybridResults # <<>>
                                    THEN rerankWithRRF(hybridResults, search.topK)
                                    ELSE <<>>]
    /\ UNCHANGED <<rag, outsideHybrid>>

\* the vector store fails: getRelevantContext throws
VectorSearchFails ==
    /\ search.pc = "vectorSearch"
    /\ search' = [search EXCEPT !.pc = "failed"]
    /\ UNCHANGED <<rag, outsideHybrid>>

\* the scores a response of the rerank service holds for the candidates;
\* <<>> is a response without scores
rerankScores(hybridResults, table) ==
    IF table = <<>> THEN <<>>
    ELSE [k \in 1..Len(hybridResults) |-> table[hybridResults[k].document.pageContent]]

\* lines 269-311: the rerank service answers
RerankReturns(table) ==
    /\ search.pc = "rerank"
    /\ search' = [search EXCEPT
                     !.pc = "returned",
                     !.result = rerankedResults(search.hybridResults,
                                                rerankScores(search.hybridResults, table),
                                                search.topK)]
    /\ UNCHANGED <<rag, outsideHybrid>>

\* lines 312-328: the rerank call fails
RerankFails ==
    /\ search.pc = "rerank"
    /\ search' = [search EXCEPT
                     !.pc = "returned",
                     !.rerankFailed = TRUE,
                     !.result = fallbackResults(search.hybridResults, search.topK)]
    /\ UNCHANGED <<rag, outsideHybrid>>

HybridSpecInit ==
    /\ StoreInit /\ DeduplicatorInit /\ ServiceInit /\ RetrievalInit /\ MemoryInit
    /\ rag \in {NewRAGModule("colbert", config) : config \in RagConfigs}
                \cup {NewRAGModule("rrf", defaultRagConfig)}
    /\ search = IdleSearch

HybridNext ==
    \/ \E chatId \in HybridChats, input \in InputDocuments : AddContext(chatId, input)
    \/ AddDocumentsReturns
    \/ AddDocumentsFails
    \/ \E chatId \in HybridChats : ClearChatContext(chatId)
    \/ \E chatId \in HybridChats, query \in HybridQueries, topK \in HybridTopKs :
           HybridGetRelevantContextCall(chatId, query, topK)
    \/ \E tables \in SearchTables : VectorSearchReturns(tables.vector, tables.bm25)
    \/ VectorSearchFails
    \/ \E table \in RerankTables \cup {<<>>} : RerankReturns(table)
    \/ RerankFails

HybridSpec == HybridSpecInit /\ [][HybridNext]_vars


\* the candidates of the search have been made
HasCandidates == search.pc = "rerank" \/ (search.pc = "returned" /\ search.vectorResults # <<>>)

\* the scores a ranker gave the documents of an identity; 0 if it returned none
ScoresOf(results, docId) ==
    IF \E k \in 1..Len(results) : getDocumentId(results[k].document) = docId
    THEN {results[k].score : k \in {m \in 1..Len(results) :
                                       getDocumentId(results[m].document) = docId}}
    ELSE {0}

\* the identities of the documents the two rankers returned
UnionIds ==
    {getDocumentId(search.vectorResults[k].document) : k \in 1..Len(search.vectorResults)}
        \cup {getDocumentId(search.bm25Results[k].document) :
                 k \in 1..Len(search.bm25Results)}

CandidateIds ==
    {getDocumentId(search.hybridResults[k].document) : k \in 1..Len(search.hybridResults)}

\* C25: every candidate of the hybrid union has combinedScore = vectorScore *
\* vectorWeight + bm25Score * bm25Weight, its two scores being the ones the
\* rankers gave its identity and 0 for a ranker that did not return it; each
\* document identity is in the list once; and the list handed to the
\* reranking is the top rerankTopK of the union by combinedScore, in
\* non-increasing order.
CombinedScoresAndTopK ==
    HasCandidates =>
        LET candidates == search.hybridResults
            weights == rag.config.hybrid
        IN  /\ \A k \in 1..Len(candidates) :
                   /\ candidates[k].vectorScore
                          \in ScoresOf(search.vectorResults,
                                       getDocumentId(candidates[k].document))
                   /\ candidates[k].bm25Score
                          \in ScoresOf(search.bm25Results,
                                       getDocumentId(candidates[k].document))
                   /\ candidates[k].combinedScore
                          = candidates[k].vectorScore * weights.vectorWeight
                                + candidates[k].bm25Score * weights.bm25Weight
            /\ \A k, m \in 1..Len(candidates) :
                   k # m => getDocumentId(candidates[k].document)
                                # getDocumentId(candidates[m].document)
            /\ CandidateIds \subseteq UnionIds
            /\ Len(candidates)
                   = Min(Cardinality(UnionIds), rerankTopKOf(rag.config, search.topK))
            /\ \A k \in 1..(Len(candidates) - 1) :
                   candidates[k].combinedScore >= candidates[k + 1].combinedScore
            /\ \A docId \in UnionIds \ CandidateIds :
                   \E vectorScore \in ScoresOf(search.vectorResults, docId),
                      bm25Score \in ScoresOf(search.bm25Results, docId) :
                       \A k \in 1..Len(candidates) :
                           vectorScore * weights.vectorWeight
                               + bm25Score * weights.bm25Weight
                                   <= candidates[k].combinedScore

\* the rankers returned more identities than rerankTopK, and of the candidates
\* handed on one was returned by both rankers and one by the vector search only
CombinedScoresWitness ==
    /\ search.pc = "rerank"
    /\ Cardinality(UnionIds) > Len(search.hybridResults)
    /\ \E k, m \in 1..Len(search.hybridResults) :
           /\ search.hybridResults[k].vectorScore > 0
           /\ search.hybridResults[k].bm25Score > 0
           /\ \A j \in 1..Len(search.bm25Results) :
                  getDocumentId(search.bm25Results[j].document)
                      # getDocumentId(search.hybridResults[m].document)
           /\ search.hybridResults[m].vectorScore > 0


\* C26: if the call of the rerank service fails, getRelevantContext raises no
\* error and returns the first topK candidates, in non-increasing order of
\* combinedScore, each with its combinedScore as score.
RerankFailureFallsBack ==
    search.rerankFailed =>
        /\ search.pc = "returned"
        /\ Len(search.result) = Min(search.topK, Len(search.hybridResults))
        /\ \A k \in 1..Len(search.result) :
               /\ search.result[k].document = search.hybridResults[k].document
               /\ search.result[k].score = search.hybridResults[k].combinedScore
               /\ search.result[k].metadata.combinedScore = search.result[k].score
        /\ \A k \in 1..(Len(search.result) - 1) :
               search.result[k].score >= search.result[k + 1].score

\* the rerank call failed with more than topK = 2 candidates of different
\* combinedScore
RerankFailureWitness ==
    /\ search.rerankFailed
    /\ search.topK = 2
    /\ Len(search.hybridResults) > 2
    /\ Len(search.result) = 2
    /\ search.result[1].score > search.result[2].score
    /\ search.result[2].score > search.hybridResults[3].combinedScore


\* the ranking of the vector search and the ranking of BM25, as identities
RankingsOfRankers ==
    <<[k \in 1..Len(search.vectorResults) |->
          getDocumentId(search.vectorResults[k].document)],
      [k \in 1..Len(search.bm25Results) |->
          getDocumentId(search.bm25Results[k].document)]>>

\* the sum of the reciprocal-rank terms of a result over the two rankings
FusedScore(result) ==
    SumOfReciprocalRanks(RankingsOfRankers, getDocumentId(result.document))

\* the results of the RAGModule without a reranker are the first of the
\* reciprocal-rank fusion of the two rankings, in its order
OrderIsFusionOfRankers ==
    (rag.version = "rrf" /\ search.pc = "returned") =>
        /\ \A k \in 1..(Len(search.result) - 1) :
               ~LessFraction(FusedScore(search.result[k]),
                             FusedScore(search.result[k + 1]))
        /\ \A docId \in UnionIds \ {getDocumentId(search.result[k].document) :
                                        k \in 1..Len(search.result)} :
               \A k \in 1..Len(search.result) :
                   ~LessFraction(FusedScore(search.result[k]),
                                 SumOfReciprocalRanks(RankingsOfRankers, docId))

\* C27: the results of the RAGModule without a reranker are in the order of
\* the reciprocal-rank fusion of the ranking of the vector search and the
\* ranking of BM25, and the score of a result is the sum of its
\* reciprocal-rank terms over the two rankings.
ResultIsFusionOfRankers ==
    /\ OrderIsFusionOfRankers
    /\ (rag.version = "rrf" /\ search.pc = "returned") =>
           \A k \in 1..Len(search.result) :
               SameFraction(search.result[k].score, FusedScore(search.result[k]))


\* C31: if the text-generation call of extractAdditionalInfo fails, addContext
\* does not fail: it goes on with the cleaned new content, and when that has
\* 20 characters or more it stores a context with that content; otherwise it
\* returns without storing.
ExtractionFailureFallsBack ==
    [][\A i \in CallIds :
          (calls[i].generationFailed /\ calls[i].pc = "store") =>
              LET fallback == Cleaned[calls[i].cleanedContent]
                  chatId == calls[i].chatId
              IN  /\ calls[i].additionalInfo = fallback
                  /\ calls'[i].pc \in {"store", "returned"}
                  /\ calls'[i].pc = "returned" =>
                         IF Len(Trimmed[fallback]) >= 20
                         THEN /\ calls'[i].outcome = "stored"
                              /\ nextId' = nextId + 1
                              /\ \E x \in Range(contexts'[chatId])
                                            \cup Range(toRemove'.removed) :
                                     /\ x.id = nextId
                                     /\ x.content = fallback
                                     /\ x.semanticHash = calls[i].semanticHash
                         ELSE /\ calls'[i].outcome = "nothing_new"
                              /\ contexts' = contexts]_vars

\* a call whose text generation failed has stored the cleaned new content as
\* the newest context of its chat
ExtractionFailureWitness ==
    \E i \in CallIds :
        /\ calls[i].generationFailed
        /\ calls[i].outcome = "stored"
        /\ Len(contexts[calls[i].chatId]) > 1
        /\ \E x \in Range(contexts[calls[i].chatId]) :
               /\ x.id = nextId - 1
               /\ x.content = Cleaned[calls[i].cleanedContent]


\* where a checkDuplication call stands, the tiers it has run so far came in
\* order and it went no further than the first match
TiersShortCircuit ==
    /\ check.pc = "embedQuery" =>
           /\ check.existingContexts # <<>>
           /\ ~check.exactMatch.isDuplicate
           /\ ~check.semanticMatch.isDuplicate
    /\ (check.pc = "queryLLM" \/ check.validation # "none") =>
           /\ check.embeddingMatch.isDuplicate
           /\ ~check.exactMatch.isDuplicate
           /\ ~check.semanticMatch.isDuplicate
    /\ check.exactMatch.isDuplicate =>
           /\ check.pc = "returned"
           /\ check.result = check.exactMatch
           /\ check.semanticMatch = NoMatch
           /\ check.embeddingMatch = NoMatch
           /\ check.validation = "none"
    /\ check.semanticMatch.isDuplicate =>
           /\ check.pc = "returned"
           /\ check.result = check.semanticMatch
           /\ check.embeddingMatch = NoMatch
           /\ check.validation = "none"

\* C32: checkDuplication runs its tiers in the order exact, semantic-hash,
\* embedding and returns the first match of the exact or the semantic-hash
\* tier without running a later tier: the embedding service is called only
\* if neither of the two matched, and the adjudication collaborator only
\* after a match of the embedding tier.
TiersInOrder ==
    /\ []TiersShortCircuit
    /\ [][(checks' = checks + 1 /\ (check'.exactMatch.isDuplicate
                                       \/ check'.semanticMatch.isDuplicate)) =>
              /\ embeddingCache' = embeddingCache
              /\ llmValidationCache' = llmValidationCache
              /\ check'.exactMatch.isDuplicate =>
                     semanticHashCache' = semanticHashCache]_vars

\* a call returned the match of its exact tier, and the next call went through
\* the three tiers to the adjudication collaborator
TiersInOrderWitness ==
    /\ exactMatchCache # <<>>
    /\ checks = 2
    /\ check.validation = "answered"
    /\ check.embeddingMatch.isDuplicate
    /\ check.result.isDuplicate


\* the age of a context is maxContextAge or more
Expired(context) == (now - context.timestamp) * 693 >= 1000

ExpiredContexts == UNION {{x \in Range(contexts[ch]) : Expired(x)} : ch \in Chats}

\* C33: after cleanupExpiredContexts no chat holds a context of age
\* maxContextAge or more, every younger context is held as it was and in the
\* order it was, a chat left without contexts holds none, and neither the
\* hash index nor the embedding index holds an entry of a removed context.
CleanupRemovesExpiredOnly ==
    [][CleanupExpiredContexts =>
          /\ \A ch \in Chats :
                 /\ \A x \in Range(contexts'[ch]) : ~Expired(x)
                 /\ contexts'[ch] = SelectSeq(contexts[ch], LAMBDA x : ~Expired(x))
          /\ \A x \in ExpiredContexts :
                 /\ x.semanticHash \notin seenHashes'
                 /\ \A e \in contentEmbeddings' : e[1] # x.id
          /\ seenHashes' \subseteq seenHashes
          /\ now' = now]_vars

\* a cleanup has removed the expired contexts of the chat of 15 and left the
\* younger ones
CleanupWitness ==
    /\ maintenance = 1
    /\ Len(contexts["A"]) < 15
    /\ \E x \in Range(contexts["A"]) : x.id <= 15
    /\ \E i \in 1..Prefill : FillerContext(i).semanticHash \notin seenHashes


\* the call returns in this step
Returns(j) == calls[j].pc \notin {"idle", "returned", "failed"} /\ calls'[j].pc = "returned"

\* C34: whether addContext stores into a chat depends on that chat's contexts
\* only: content of 20 characters or more added to a chat without contexts
\* is stored, whatever the other chats hold, and no step of an addContext
\* call changes the contexts of a chat other than its own.
ChatsAreIsolated ==
    [][\A j \in CallIds :
          /\ (/\ Returns(j)
              /\ calls[j].countBefore = 0
              /\ contexts[calls[j].chatId] = <<>>
              /\ Len(Trimmed[Cleaned[calls[j].cleanedContent]]) >= 20)
                 => /\ calls'[j].outcome = "stored"
                    /\ Len(contexts'[calls[j].chatId]) = 1
          /\ (calls'[j] # calls[j] /\ maintenance' = maintenance)
                 => \A ch \in Chats \ {calls'[j].chatId} : contexts'[ch] = contexts[ch]]_vars


StoredContexts == UNION {Range(contexts[ch]) : ch \in Chats}

\* C35: whenever no addContext call is in flight, the hash index holds
\* exactly the semanticHash values of the contexts stored in the chats: no
\* hash of a removed context is left and no hash of a stored context is
\* missing.
HashIndexIsExact ==
    (\A i \in CallIds : ~InFlight(calls[i]))
        => seenHashes = {x.semanticHash : x \in StoredContexts}


\* C36: when checkDuplication has returned isDuplicate = true, the
\* existingContextId of its result is the id of a context of the
\* existingContexts the call was given.
DuplicateIdIsInPool ==
    (check.pc = "returned" /\ check.result.isDuplicate)
        => \E k \in 1..Len(check.existingContexts) :
               check.existingContexts[k].id = check.result.existingContextId


\* the contexts of all chats of a map
ContextsOf(contextsMap) == UNION {Range(contextsMap[k].value) : k \in 1..Len(contextsMap)}

IsCompressed(context) == "compressed" \in DOMAIN context.metadata

\* C37: whatever passes of compressOldContexts a step makes over a context,
\* the originalLength of a compressed context is the length its content had
\* before its first compression, and its compressionRatio is the length of
\* its content divided by that originalLength.
CompressionBookkeepingStable ==
    [][\A x \in ContextsOf(managed) : \A y \in ContextsOf(managed') :
          (y.id = x.id /\ IsCompressed(y)) =>
              /\ y.metadata.originalLength =
                     IF IsCompressed(x) THEN x.metadata.originalLength ELSE Len(x.content)
              /\ y.metadata.compressionRatio[1] * y.metadata.originalLength
                     = Len(y.content) * y.metadata.compressionRatio[2]]_vars


\* the length of the vectors the embedding service of the deployment gives
EmbeddingDimension == Len(FillerVectors[1])

\* C38: every context that getRelevantContext of the store or
\* retrieveContexts of the MemoryManager has handed out holds an embedding of
\* the length of the deployment's embeddings, the length a query embedding
\* has, so that calculateCosineSimilarity accepts the two.
HandedOutHaveEmbeddings ==
    /\ \A k \in 1..Len(retrieval.result) :
           Len(retrieval.result[k].embedding) = EmbeddingDimension
    /\ \A k \in 1..Len(storage.retrieved) :
           Len(storage.retrieved[k].embedding) = EmbeddingDimension


\* C39: whenever no addContext call waits for the vector store, the
\* documents the vector search can return for a chat are the documents of the
\* chat's local list, the list BM25 scores: a failed addDocuments leaves the
\* local list as it was and the documents of a cleared chat are in neither.
VectorStoreMatchesLocalList ==
    rag.adding = <<>> =>
        \A chatId \in HybridChats :
            Range(documentsOf(rag.vectorStore, chatId))
                = Range(documentsOf(rag.chatContexts, chatId))


\* getRelevantContext has returned what the rerank service's answer gave
RerankSucceeded ==
    /\ rag.version = "colbert"
    /\ search.pc = "returned"
    /\ ~search.rerankFailed
    /\ search.hybridResults # <<>>

\* C40: the list getRelevantContext returns after a successful rerank holds
\* at most topK results, their score fields do not increase along the list,
\* and their metadata.rank values are 1, 2, ... in the order of the list.
RerankedListIsOrdered ==
    RerankSucceeded =>
        /\ Len(search.result) <= search.topK
        /\ \A k \in 1..(Len(search.result) - 1) :
               search.result[k].score >= search.result[k + 1].score
        /\ \A k \in 1..Len(search.result) : search.result[k].metadata.rank = k

====
